---- MODULE Spec2Model ----
(***************************************************************************)
(* The authentication and session subsystem of the blog platform, and the  *)
(* article administration behind it:                                       *)
(*   - GithubAuthenticator::login   (src/src/auth/github.rs)               *)
(*   - RedisRepo::save / get / delete (src/src/auth/redis.rs)              *)
(*   - DefaultSessionManager        (src/src/auth.rs)                      *)
(*   - Error, its Display text and its HTTP status (src/src/errors.rs)     *)
(*   - the HTTP adapter             (src/src/auth/http.rs)                 *)
(*   - DefaultAdmin                 (src/src/blog.rs)                      *)
(*   - PostgresRepo                 (src/src/blog/postgres.rs)             *)
(*   - the article endpoints        (src/src/blog/http.rs)                 *)
(*                                                                         *)
(* Every request is handled by a handler p.  A handler's code between two  *)
(* .await points is one atomic action; the identity provider and the       *)
(* key-value store answer each awaited call with any outcome they can      *)
(* produce (transport failure, unparseable body, any parsed body).         *)
(*                                                                         *)
(* Strings that the code only compares or concatenates (organisation       *)
(* handles, error texts, tokens) are TLA+ strings.  The four fields of a   *)
(* User are sequences of one-character strings, because the stored record  *)
(* is built and split character by character.                              *)
(*                                                                         *)
(* Uuid::new_v4 is modelled as a generator that never repeats a value and  *)
(* whose values nobody can present before save has returned them.  A store *)
(* command that fails was not applied, and the configured TTL is positive. *)
(*                                                                         *)
(* Specifications:                                                         *)
(*   Spec           login, session and logout on the Redis-backed store    *)
(*   ManagerSpec    DefaultSessionManager over a Repo that may return any  *)
(*                  Result                                                 *)
(*   StoredSpec     get on a key whose value another writer put there      *)
(*   RoundTripSpec  save, then get, for profiles that hold the delimiter   *)
(*   ConfigSpec     GithubAuthenticator::new on any configuration, then    *)
(*                  start_login                                            *)
(*   ConcurrentSpec one handler more than Spec, each saving its session    *)
(*                  and logging out while the others do                    *)
(*   HttpSpec       /auth/login/callback, /auth/me and /auth/logout with   *)
(*                  and without the session cookie                         *)
(*   CreateSpec     DefaultAdmin::create on PostgresRepo                   *)
(*   ListSpec       DefaultAdmin::list over a Repo that may return any count*)
(*   UpdateSpec     DefaultAdmin::update on PostgresRepo                   *)
(*   StatusSpec     publish, move_to_draft, move_to_trash and delete       *)
(*   AdminHttpSpec  the eight article endpoints, with and without a session*)
(*   PoolSpec       login, session and logout on a pool with one connection*)
(*                  less than there are handlers, with fairness            *)
(*   RaceSpec       the status calls and delete, racing on one article     *)
(*   PostgresListSpec  DefaultAdmin::list on PostgresRepo                  *)
(***************************************************************************)
EXTENDS Integers, Sequences, FiniteSets, TLC

\* ------------------------------------------------------------------ bounds
\* concurrent request handlers
NumProcs == 1
\* values Uuid::new_v4 can still draw
NumTokens == 1

Procs == 1..NumProcs

UuidNames == <<"uuid-1", "uuid-2", "uuid-3", "uuid-4">>
Uuids == {UuidNames[i] : i \in 1..NumTokens}
NoToken == ""
\* a cookie value that no save ever minted
ForgedToken == "forged"
Tokens == Uuids \cup {ForgedToken}

\* ------------------------------------------------------------------ errors
\* src/src/errors.rs: the Display text of each error kind
ErrorToString(kind, msg) ==
    CASE kind = "InitializationError" -> "initialization error: " \o msg
      [] kind = "ConnectionError"     -> "connection error: " \o msg
      [] kind = "SerializationError"  -> "serialization error: " \o msg
      [] kind = "PermissionDenied"    -> "permission denied: " \o msg
      [] kind = "NotFound"            -> msg \o " not found"
      [] kind = "InvalidInput"        -> "invalid input: " \o msg

\* the variants of Error
ErrorKinds ==
    {"InitializationError", "ConnectionError", "SerializationError",
     "PermissionDenied", "NotFound", "InvalidInput"}

\* ------------------------------------------------------------------ users
Pipe == "|"
NoUser == [id |-> 0, login |-> <<>>, avatar_url |-> <<>>, name |-> <<>>]

\* the profiles the provider may return in this model
GithubUsers ==
    { [id |-> 7,  login |-> <<"a">>,            avatar_url |-> <<"u">>, name |-> <<"n">>],
      [id |-> 12, login |-> <<"a", "|", "b">>,  avatar_url |-> <<"u">>, name |-> <<"n">>] }

\* GithubUser::to_user
ToUser(gh) ==
    [id |-> gh.id, login |-> gh.login, avatar_url |-> gh.avatar_url, name |-> gh.name]

\* ------------------------------------------------------------------ record encoding
Digits == <<"0", "1", "2", "3", "4", "5", "6", "7", "8", "9">>

\* Display of a u64: its decimal digits, no sign, no leading zero
RECURSIVE U64ToString(_)
U64ToString(n) ==
    IF n < 10 THEN <<Digits[n + 1]>>
    ELSE U64ToString(n \div 10) \o <<Digits[(n % 10) + 1]>>

\* RedisRepo::save: format!("{}|{}|{}|{}", id, login, avatar_url, name)
EncodeUser(u) ==
    U64ToString(u.id) \o <<Pipe>> \o u.login \o <<Pipe>> \o u.avatar_url
        \o <<Pipe>> \o u.name

\* index of the first delimiter in s, 0 when there is none
RECURSIVE FindFirst(_, _, _)
FindFirst(s, d, i) ==
    IF i > Len(s) THEN 0
    ELSE IF s[i] = d THEN i
    ELSE FindFirst(s, d, i + 1)

\* str::splitn(n, d): at most n pieces, the last one holds the rest unsplit
RECURSIVE SplitN(_, _, _)
SplitN(s, n, d) ==
    LET i == FindFirst(s, d, 1)
    IN  IF n <= 1 \/ i = 0 THEN <<s>>
        ELSE <<SubSeq(s, 1, i - 1)>> \o SplitN(SubSeq(s, i + 1, Len(s)), n - 1, d)

DigitValue(c) == CHOOSE k \in 0..9 : Digits[k + 1] = c
IsDigit(c) == \E k \in 1..10 : Digits[k] = c

RECURSIVE DigitsValue(_)
DigitsValue(s) ==
    IF Len(s) = 0 THEN 0
    ELSE 10 * DigitsValue(SubSeq(s, 1, Len(s) - 1)) + DigitValue(s[Len(s)])

\* the decimal digits of u64::MAX
U64MaxDigits ==
    <<"1", "8", "4", "4", "6", "7", "4", "4", "0", "7",
      "3", "7", "0", "9", "5", "5", "1", "6", "1", "5">>

\* digits without their leading zeros
RECURSIVE StripZeros(_)
StripZeros(s) ==
    IF Len(s) > 0 /\ s[1] = "0" THEN StripZeros(SubSeq(s, 2, Len(s))) ELSE s

\* a <= b for two digit strings of the same length
RECURSIVE DigitsLeq(_, _)
DigitsLeq(a, b) ==
    IF Len(a) = 0 THEN TRUE
    ELSE IF DigitValue(a[1]) # DigitValue(b[1]) THEN DigitValue(a[1]) < DigitValue(b[1])
    ELSE DigitsLeq(SubSeq(a, 2, Len(a)), SubSeq(b, 2, Len(b)))

\* the digits denote a number that fits in 64 bits
FitsU64(digits) ==
    LET d == StripZeros(digits)
    IN  \/ Len(d) < Len(U64MaxDigits)
        \/ Len(d) = Len(U64MaxDigits) /\ DigitsLeq(d, U64MaxDigits)

\* str::parse::<u64>: an optional '+', then one or more decimal digits whose
\* value fits in 64 bits (the values this model parses successfully are small)
ParseU64(s) ==
    LET body == IF Len(s) > 0 /\ s[1] = "+" THEN SubSeq(s, 2, Len(s)) ELSE s
    IN  IF /\ Len(body) > 0
           /\ \A i \in 1..Len(body) : IsDigit(body[i])
           /\ FitsU64(body)
        THEN [ok |-> TRUE, value |-> DigitsValue(body)]
        ELSE [ok |-> FALSE, value |-> 0]

\* ------------------------------------------------------------------ results
\* Result<_, Error> of every operation, in one record shape
Ok(user, token) ==
    [ok |-> TRUE, kind |-> "", msg |-> "", user |-> user, token |-> token]
Err(kind, msg) ==
    [ok |-> FALSE, kind |-> kind, msg |-> msg, user |-> NoUser, token |-> NoToken]
NoResult == [ok |-> FALSE, kind |-> "", msg |-> "", user |-> NoUser, token |-> NoToken]

\* ------------------------------------------------------------------ the identity provider
\* what reqwest can hand back for one call: send() fails ("transport"),
\* json() fails ("parse"), or a parsed body; send() does not look at the status
NetErrorText == "error sending request"
ParseErrorText == "error decoding response body"

\* POST /login/oauth/access_token, parsed as GithubAccessToken (serde defaults)
TokenResponses ==
    { [net |-> n, status |-> 0, access_token |-> "", error |-> "",
       error_description |-> ""] : n \in {"transport", "parse"} }
    \cup
    { r \in [ net : {"ok"}, status : {200, 400},
               access_token : {"", "test_access_token"},
               error : {"", "bad_verification_code"},
               error_description : {"", "The code passed is incorrect or expired."} ] :
        \* the provider describes only an error it reports, and hands out a
        \* token without an error only with status 200
        /\ r.error = "" => r.error_description = ""
        /\ (r.error = "" /\ r.access_token # "") => r.status = 200 }

\* GET /user, parsed as GithubUser, for the account whose profile is u
UserResponses(u) ==
    { [net |-> n, user |-> NoUser] : n \in {"transport", "parse"} }
    \cup { [net |-> "ok", user |-> u] }

\* GET /user/orgs, parsed as GithubOrgs: a list of handles
OrgLists ==
    { <<>>, <<"test_org">>, <<"test_org2">>, <<"Test_Org">>, <<"test">>,
      <<"test_org2", "test_org">>, <<"test_org2", "Test_Org">> }
OrgsResponses ==
    { [net |-> n, orgs |-> <<>>] : n \in {"transport", "parse"} }
    \cup { [net |-> "ok", orgs |-> l] : l \in OrgLists }

\* the organisations an authenticator may be configured with (never empty:
\* GithubAuthenticator::new rejects an empty one)
ConfiguredOrgs == {"test_org"}

\* ------------------------------------------------------------------ the backing store
PoolErrorText == "Timed out in bb8"
RedisErrorText == "broken pipe"
NoRecord == [present |-> FALSE, data |-> <<>>, ttl |-> FALSE]

\* ------------------------------------------------------------------ the articles table
\* the ids Uuid::new_v4 can give an article, and an id no article ever had
ArticleNames == <<"article-1", "article-2">>
UnknownArticle == "article-unknown"
ArticleIds == {ArticleNames[i] : i \in 1..Len(ArticleNames)} \cup {UnknownArticle}

\* no row with this id: never inserted ("none") or deleted ("removed")
NoArticle ==
    [row |-> "none", title |-> "", description |-> "", content |-> "", author |-> "",
     status |-> "", created_at |-> 0]
NoArticles == [a \in ArticleIds |-> NoArticle]

\* ------------------------------------------------------------------ state
VARIABLES
    org,        \* GithubAuthenticator.org
    account,    \* per handler: the provider profile of the client it serves
    store,      \* the key-value store: token -> record (value, has an expiry)
    minted,     \* the Users save was called with, in the order it drew their tokens
    pc,         \* per handler: the await it is suspended on
    loc,        \* per handler: the locals of the running call
    result,     \* per handler: what the finished call returned
    log,        \* per handler: the remote steps the running call issued, in order
    issued,     \* tokens a successful login handed to a client
    deleted,    \* tokens for which delete returned Ok
    expired,    \* tokens the store removed when their TTL elapsed
    articles    \* the table blog.articles: id -> row

vars ==
    <<org, account, store, minted, pc, loc, result, log, issued, deleted, expired,
      articles>>

NoLocals ==
    [op |-> "", access_token |-> "", gh_user |-> NoUser, user |-> NoUser,
     token |-> NoToken, arg |-> NoToken]

Init ==
    /\ org \in ConfiguredOrgs
    /\ account \in [Procs -> GithubUsers]
    \* handlers are interchangeable: keep one of each pair of mirrored assignments
    /\ \A p, q \in Procs : p <= q => account[p].id <= account[q].id
    /\ store = [t \in Tokens |-> NoRecord]
    /\ minted = <<>>
    /\ pc = [p \in Procs |-> "idle"]
    /\ loc = [p \in Procs |-> NoLocals]
    /\ result = [p \in Procs |-> NoResult]
    /\ log = [p \in Procs |-> <<>>]
    /\ issued = {}
    /\ deleted = {}
    /\ expired = {}
    /\ articles = NoArticles

\* a handler that is free to take the next request
Free(p) == pc[p] \in {"idle", "done"}

Step(name) == [step |-> name, st |-> "pending", resp |-> <<>>]
\* the answer to the step a call is waiting on
Answered(l, st, resp) ==
    [l EXCEPT ![Len(l)] = [step |-> l[Len(l)].step, st |-> st, resp |-> resp]]

Finish(p, r) ==
    /\ pc' = [pc EXCEPT ![p] = "done"]
    /\ result' = [result EXCEPT ![p] = r]

\* ------------------------------------------------------------------ GithubAuthenticator::login
\* a mapping that reports every failed fetch, unparseable bodies included,
\* as a failure of the connection
FetchErrorAsConnectionError(what, net) ==
    Err("ConnectionError", "getting " \o what \o ": " \o NetErrorText)

\* map_err of send() and json() for the step named `what` (access_token, user, org)
FetchError(what, net) ==
    IF net = "transport"
    THEN Err("ConnectionError", "getting " \o what \o ": " \o NetErrorText)
    ELSE Err("SerializationError", "reading " \o what \o ": " \o ParseErrorText)

\* a check that trusts a token when there is one and looks at the error
\* field only when there is none
CheckAccessTokenFirst(r) ==
    IF r.access_token # "" THEN Ok(NoUser, NoToken)
    ELSE IF r.error # ""
    THEN Err("PermissionDenied", r.error_description \o " (" \o r.error \o ")")
    ELSE Err("PermissionDenied", "access token is empty")

\* a check that looks at the error field only and lets an empty token through
CheckAccessTokenErrorOnly(r) ==
    IF r.error # ""
    THEN Err("PermissionDenied", r.error_description \o " (" \o r.error \o ")")
    ELSE Ok(NoUser, NoToken)

\* the two checks on the parsed GithubAccessToken: the error field first,
\* then the access token; TRUE in .ok when both pass
CheckAccessToken(r) ==
    IF r.error # ""
    THEN Err("PermissionDenied", r.error_description \o " (" \o r.error \o ")")
    ELSE IF r.access_token = ""
    THEN Err("PermissionDenied", "access token is empty")
    ELSE Ok(NoUser, NoToken)

\* a gate that compares the handles without regard to letter case
IsMemberIgnoringCase(orgs, target) ==
    LET FoldCase(handle) == IF handle = "Test_Org" THEN "test_org" ELSE handle
    IN  \E i \in 1..Len(orgs) : FoldCase(orgs[i]) = FoldCase(target)

\* a gate that lets any member of some organisation in
IsMemberOfAnyOrg(orgs, target) == Len(orgs) > 0

\* gh_orgs.0.iter().any(|org| org.login == self.org)
IsMember(orgs, target) == \E i \in 1..Len(orgs) : orgs[i] = target

\* a gate that reports the missing membership as absent data
NotMemberAsNotFound(target) == Err("NotFound", "membership of " \o target)

NotMemberError(target) == Err("PermissionDenied", "not a member of " \o target)

\* a login that hands the error of repo.save to its caller as it is
LoginAfterSavePassThrough(user, r) ==
    IF r.ok THEN Ok(user, r.token) ELSE r

\* what login returns once repo.save has returned r
LoginAfterSave(user, r) ==
    IF r.ok THEN Ok(user, r.token)
    ELSE Err("ConnectionError", ErrorToString(r.kind, r.msg))

\* login(code) up to the first await: the token exchange is sent
Login(p) ==
    /\ Free(p)
    /\ pc' = [pc EXCEPT ![p] = "exchange"]
    /\ loc' = [loc EXCEPT ![p] = [NoLocals EXCEPT !.op = "login"]]
    /\ result' = [result EXCEPT ![p] = NoResult]
    /\ log' = [log EXCEPT ![p] = <<Step("access_token")>>]
    /\ UNCHANGED <<articles, org, account, store, minted, issued, deleted, expired>>

\* the token exchange has answered: check it, then send GET /user
ExchangeReturn(p) ==
    /\ pc[p] = "exchange"
    /\ \E r \in TokenResponses :
         LET chk == CheckAccessToken(r)
         IN  IF r.net # "ok"
             THEN /\ Finish(p, FetchError("access_token", r.net))
                  /\ log' = [log EXCEPT ![p] = Answered(@, "fail", r)]
                  /\ loc' = loc
             ELSE IF ~chk.ok
             THEN /\ Finish(p, chk)
                  /\ log' = [log EXCEPT ![p] = Answered(@, "ok", r)]
                  /\ loc' = loc
             ELSE /\ pc' = [pc EXCEPT ![p] = "profile"]
                  /\ loc' = [loc EXCEPT ![p].access_token = r.access_token]
                  /\ log' = [log EXCEPT ![p] = Append(Answered(@, "ok", r), Step("user"))]
                  /\ result' = result
    /\ UNCHANGED <<articles, org, account, store, minted, issued, deleted, expired>>

\* a profile fetch that sends GET /user again when the transport failed
UserReturnWithRetry(p) ==
    /\ pc[p] = "profile"
    /\ \E r \in UserResponses(account[p]) :
         IF r.net = "transport"
         THEN /\ log' = [log EXCEPT ![p] = Append(Answered(@, "fail", r), Step("user"))]
              /\ UNCHANGED <<pc, loc, result>>
         ELSE IF r.net = "parse"
         THEN /\ Finish(p, FetchError("user", r.net))
              /\ log' = [log EXCEPT ![p] = Answered(@, "fail", r)]
              /\ loc' = loc
         ELSE /\ pc' = [pc EXCEPT ![p] = "orgs"]
              /\ loc' = [loc EXCEPT ![p].gh_user = r.user]
              /\ log' = [log EXCEPT ![p] = Append(Answered(@, "ok", r), Step("org"))]
              /\ result' = result
    /\ UNCHANGED <<articles, org, account, store, minted, issued, deleted, expired>>

\* GET /user has answered: keep the profile, then send GET /user/orgs
UserReturn(p) ==
    /\ pc[p] = "profile"
    /\ \E r \in UserResponses(account[p]) :
         IF r.net # "ok"
         THEN /\ Finish(p, FetchError("user", r.net))
              /\ log' = [log EXCEPT ![p] = Answered(@, "fail", r)]
              /\ loc' = loc
         ELSE /\ pc' = [pc EXCEPT ![p] = "orgs"]
              /\ loc' = [loc EXCEPT ![p].gh_user = r.user]
              /\ log' = [log EXCEPT ![p] = Append(Answered(@, "ok", r), Step("org"))]
              /\ result' = result
    /\ UNCHANGED <<articles, org, account, store, minted, issued, deleted, expired>>

\* a login that calls repo.save as soon as the memberships are parsed and
\* leaves the membership check for later
OrgsReturnSaveFirst(p) ==
    /\ pc[p] = "orgs"
    /\ \E r \in OrgsResponses :
         IF r.net # "ok"
         THEN /\ Finish(p, FetchError("org", r.net))
              /\ log' = [log EXCEPT ![p] = Answered(@, "fail", r)]
              /\ loc' = loc
         ELSE /\ pc' = [pc EXCEPT ![p] = "save_pool"]
              /\ loc' = [loc EXCEPT ![p].user = ToUser(loc[p].gh_user)]
              /\ log' = [log EXCEPT ![p] = Append(Answered(@, "ok", r), Step("save"))]
              /\ result' = result
    /\ UNCHANGED <<articles, org, account, store, minted, issued, deleted, expired>>

\* GET /user/orgs has answered: the membership gate, then repo.save(user),
\* whose first await is pool.get()
OrgsReturn(p) ==
    /\ pc[p] = "orgs"
    /\ \E r \in OrgsResponses :
         IF r.net # "ok"
         THEN /\ Finish(p, FetchError("org", r.net))
              /\ log' = [log EXCEPT ![p] = Answered(@, "fail", r)]
              /\ loc' = loc
         ELSE IF ~IsMember(r.orgs, org)
         THEN /\ Finish(p, NotMemberError(org))
              /\ log' = [log EXCEPT ![p] =
                             Append(Answered(@, "ok", r),
                                    [step |-> "gate", st |-> "fail", resp |-> <<>>])]
              /\ loc' = loc
         ELSE /\ pc' = [pc EXCEPT ![p] = "save_pool"]
              /\ loc' = [loc EXCEPT ![p].user = ToUser(loc[p].gh_user)]
              /\ log' = [log EXCEPT ![p] =
                             Answered(@, "ok", r)
                                 \o <<[step |-> "gate", st |-> "ok", resp |-> <<>>],
                                      Step("save")>>]
              /\ result' = result
    /\ UNCHANGED <<articles, org, account, store, minted, issued, deleted, expired>>

\* ------------------------------------------------------------------ RedisRepo::save
\* the error save returns when pool.get(), SET or EXPIRE fails
StoreError(text) == Err("ConnectionError", text)

\* Uuid::new_v4(): a value it has not returned before
NewV4 == UuidNames[Len(minted) + 1]

\* save: pool.get() has answered; on a connection, mint the token, build the
\* value and send SET
SavePool(p) ==
    /\ pc[p] = "save_pool"
    /\ \/ /\ Finish(p, LoginAfterSave(loc[p].user, StoreError(PoolErrorText)))
          /\ log' = [log EXCEPT ![p] = Answered(@, "fail", <<>>)]
          /\ UNCHANGED <<loc, minted>>
       \/ /\ Len(minted) < Len(UuidNames)
          /\ NewV4 \in DOMAIN store
          /\ minted' = Append(minted, loc[p].user)
          /\ loc' = [loc EXCEPT ![p].token = NewV4]
            /\ pc' = [pc EXCEPT ![p] = "save_set"]
            /\ UNCHANGED <<result, log>>
    /\ UNCHANGED <<articles, org, account, store, issued, deleted, expired>>

\* save: SET has answered; when it was applied, send EXPIRE
SaveSet(p) ==
    /\ pc[p] = "save_set"
    /\ \/ /\ Finish(p, LoginAfterSave(loc[p].user, StoreError(RedisErrorText)))
          /\ log' = [log EXCEPT ![p] = Answered(@, "fail", <<>>)]
          /\ UNCHANGED store
       \/ /\ store' = [store EXCEPT ![loc[p].token] =
                           [present |-> TRUE, data |-> EncodeUser(loc[p].user),
                            ttl |-> FALSE]]
          /\ pc' = [pc EXCEPT ![p] = "save_expire"]
          /\ UNCHANGED <<result, log>>
    /\ UNCHANGED <<articles, org, account, minted, loc, issued, deleted, expired>>

\* save: EXPIRE has answered; when it was applied the key (if it still exists)
\* has the configured, positive TTL; save returns the token and login the Session
SaveExpire(p) ==
    /\ pc[p] = "save_expire"
    /\ \/ /\ Finish(p, LoginAfterSave(loc[p].user, StoreError(RedisErrorText)))
          /\ log' = [log EXCEPT ![p] = Answered(@, "fail", <<>>)]
          /\ UNCHANGED <<store, issued>>
       \/ /\ store' = [store EXCEPT ![loc[p].token] =
                           IF @.present THEN [@ EXCEPT !.ttl = TRUE] ELSE @]
          /\ Finish(p, LoginAfterSave(loc[p].user, Ok(NoUser, loc[p].token)))
          /\ log' = [log EXCEPT ![p] = Answered(@, "ok", <<>>)]
          /\ issued' = issued \cup {loc[p].token}
    /\ UNCHANGED <<articles, org, account, minted, loc, deleted, expired>>

\* ------------------------------------------------------------------ RedisRepo::get
\* a decoding that splits at every '|' and wants exactly four pieces
DecodeUserSplitAll(data) ==
    LET segments == SplitN(data, Len(data) + 1, Pipe)
    IN  IF Len(segments) # 4
        THEN Err("SerializationError", "Invalid data format")
        ELSE IF ~ParseU64(segments[1]).ok
        THEN Err("SerializationError", "Invalid ID format")
        ELSE Ok([id |-> ParseU64(segments[1]).value, login |-> segments[2],
                 avatar_url |-> segments[3], name |-> segments[4]], NoToken)

\* a decoding that takes 0 for an id it cannot parse
DecodeUserDefaultId(data) ==
    LET segments == SplitN(data, 4, Pipe)
    IN  IF Len(segments) # 4
        THEN Err("SerializationError", "Invalid data format")
        ELSE Ok([id |-> ParseU64(segments[1]).value, login |-> segments[2],
                 avatar_url |-> segments[3], name |-> segments[4]], NoToken)

\* the stored value back to a User: splitn(4, '|'), four pieces, a u64 first
DecodeUser(data) ==
    LET segments == SplitN(data, 4, Pipe)
    IN  IF Len(segments) # 4
        THEN Err("SerializationError", "Invalid data format")
        ELSE IF ~ParseU64(segments[1]).ok
        THEN Err("SerializationError", "Invalid ID format")
        ELSE Ok([id |-> ParseU64(segments[1]).value, login |-> segments[2],
                 avatar_url |-> segments[3], name |-> segments[4]], NoToken)

\* a get that reports every Err of con.get, the nil reply included, as a
\* failure of the connection
GetReplyAsConnectionError(failed, rec) ==
    IF failed \/ ~rec.present
    THEN Err("ConnectionError", "response was nil")
    ELSE DecodeUser(rec.data)

\* con.get(token) read as a String: a failed command and a nil reply both
\* are an Err, mapped to PermissionDenied
GetReply(failed, rec) ==
    IF failed \/ ~rec.present
    THEN Err("PermissionDenied", "no session")
    ELSE DecodeUser(rec.data)

\* the tokens a client can put in a request: those a login gave out, or any
\* other text
Presentable == issued \cup {ForgedToken}

\* DefaultSessionManager::session(token) = repo.get(token), up to pool.get()
Session(p) ==
    /\ Free(p)
    /\ \E t \in Presentable :
         loc' = [loc EXCEPT ![p] = [NoLocals EXCEPT !.op = "session", !.arg = t]]
    /\ pc' = [pc EXCEPT ![p] = "get_pool"]
    /\ result' = [result EXCEPT ![p] = NoResult]
    /\ log' = [log EXCEPT ![p] = <<Step("get")>>]
    /\ UNCHANGED <<articles, org, account, store, minted, issued, deleted, expired>>

\* get: pool.get() has answered; on a connection send GET
GetPool(p) ==
    /\ pc[p] = "get_pool"
    /\ \/ /\ Finish(p, StoreError(PoolErrorText))
          /\ log' = [log EXCEPT ![p] = Answered(@, "fail", <<>>)]
       \/ /\ pc' = [pc EXCEPT ![p] = "get_cmd"]
          /\ UNCHANGED <<result, log>>
    /\ UNCHANGED <<articles, org, account, store, minted, loc, issued, deleted, expired>>

\* get: GET has answered, with a failure of the command or with its reply
GetCmdAnswer(p, failed) ==
    /\ pc[p] = "get_cmd"
    /\ Finish(p, GetReply(failed, store[loc[p].arg]))
    /\ log' = [log EXCEPT ![p] =
                   Answered(@, IF failed THEN "fail" ELSE "ok",
                            [gone |-> loc[p].arg \in deleted \cup expired,
                             present |-> store[loc[p].arg].present,
                             data |-> store[loc[p].arg].data])]
    /\ UNCHANGED <<articles, org, account, store, minted, loc, issued, deleted, expired>>

GetCmd(p) == \E failed \in BOOLEAN : GetCmdAnswer(p, failed)

\* ------------------------------------------------------------------ RedisRepo::delete
\* DefaultSessionManager::logout(token) = repo.delete(token), up to pool.get()
Logout(p) ==
    /\ Free(p)
    /\ \E t \in Presentable :
         loc' = [loc EXCEPT ![p] = [NoLocals EXCEPT !.op = "logout", !.arg = t]]
    /\ pc' = [pc EXCEPT ![p] = "del_pool"]
    /\ result' = [result EXCEPT ![p] = NoResult]
    /\ log' = [log EXCEPT ![p] = <<Step("del")>>]
    /\ UNCHANGED <<articles, org, account, store, minted, issued, deleted, expired>>

\* delete: pool.get() has answered; on a connection send DEL
DeletePool(p) ==
    /\ pc[p] = "del_pool"
    /\ \/ /\ Finish(p, StoreError(PoolErrorText))
          /\ log' = [log EXCEPT ![p] = Answered(@, "fail", <<>>)]
       \/ /\ pc' = [pc EXCEPT ![p] = "del_cmd"]
          /\ UNCHANGED <<result, log>>
    /\ UNCHANGED <<articles, org, account, store, minted, loc, issued, deleted, expired>>

\* a delete that reports a key DEL did not find as NotFound
DeleteCmdMissingIsNotFound(p) ==
    /\ pc[p] = "del_cmd"
    /\ \/ /\ Finish(p, StoreError(RedisErrorText))
          /\ log' = [log EXCEPT ![p] = Answered(@, "fail", <<>>)]
          /\ UNCHANGED <<store, deleted>>
       \/ /\ ~store[loc[p].arg].present
          /\ Finish(p, Err("NotFound", "session"))
          /\ log' = [log EXCEPT ![p] = Answered(@, "ok", <<>>)]
          /\ UNCHANGED <<store, deleted>>
       \/ /\ store[loc[p].arg].present
          /\ store' = [store EXCEPT ![loc[p].arg] = NoRecord]
          /\ deleted' = deleted \cup {loc[p].arg}
          /\ Finish(p, Ok(NoUser, NoToken))
          /\ log' = [log EXCEPT ![p] = Answered(@, "ok", <<>>)]
    /\ UNCHANGED <<articles, org, account, minted, loc, issued, expired>>

\* a delete that ends every session of the user the token belongs to
DeleteCmdAllOfUser(p) ==
    /\ pc[p] = "del_cmd"
    /\ \/ /\ Finish(p, StoreError(RedisErrorText))
          /\ log' = [log EXCEPT ![p] = Answered(@, "fail", <<>>)]
          /\ UNCHANGED <<store, deleted>>
       \/ /\ store' = [t \in DOMAIN store |->
                           IF t = loc[p].arg
                              \/ (store[t].present /\ store[t].data = store[loc[p].arg].data)
                           THEN NoRecord ELSE store[t]]
          /\ deleted' = deleted \cup {loc[p].arg}
          /\ Finish(p, Ok(NoUser, NoToken))
          /\ log' = [log EXCEPT ![p] = Answered(@, "ok", <<>>)]
    /\ UNCHANGED <<articles, org, account, minted, loc, issued, expired>>

\* delete: DEL has answered; Ok whether or not the key existed
DeleteCmd(p) ==
    /\ pc[p] = "del_cmd"
    /\ \/ /\ Finish(p, StoreError(RedisErrorText))
          /\ log' = [log EXCEPT ![p] = Answered(@, "fail", <<>>)]
          /\ UNCHANGED <<store, deleted>>
       \/ /\ store' = [store EXCEPT ![loc[p].arg] = NoRecord]
          /\ deleted' = deleted \cup {loc[p].arg}
          /\ Finish(p, Ok(NoUser, NoToken))
          /\ log' = [log EXCEPT ![p] = Answered(@, "ok", <<>>)]
    /\ UNCHANGED <<articles, org, account, minted, loc, issued, expired>>

\* ------------------------------------------------------------------ the store's own expiry
\* the store drops a key whose TTL has elapsed
TtlExpire(t) ==
    /\ store[t].present
    /\ store[t].ttl
    /\ store' = [store EXCEPT ![t] = NoRecord]
    /\ expired' = expired \cup {t}
    /\ UNCHANGED <<articles, org, account, minted, pc, loc, result, log, issued, deleted>>

Next ==
    \/ \E p \in Procs :
         \/ Login(p) \/ ExchangeReturn(p) \/ UserReturn(p) \/ OrgsReturn(p)
         \/ SavePool(p) \/ SaveSet(p) \/ SaveExpire(p)
         \/ Session(p) \/ GetPool(p) \/ GetCmd(p)
         \/ Logout(p) \/ DeletePool(p) \/ DeleteCmd(p)
    \/ \E t \in Tokens : TtlExpire(t)

Spec == Init /\ [][Next]_vars

\* ------------------------------------------------------------------ what a call did
\* the call handler p ran is a login, and it has returned
LoginDone(p) == pc[p] = "done" /\ loc[p].op = "login"
\* the running or finished call of p issued the step `name`
Has(p, name) == \E i \in 1..Len(log[p]) : log[p][i].step = name
Entry(p, name) == log[p][CHOOSE i \in 1..Len(log[p]) : log[p][i].step = name]
\* the step `name` of p's call was answered and its body parsed
StepOk(p, name) == Has(p, name) /\ Entry(p, name).st = "ok"
Listed(orgs, target) == target \in {orgs[i] : i \in 1..Len(orgs)}

\* the provider-side conditions of a login: the exchange answered with a
\* non-empty token and no error, the profile and the memberships were
\* fetched, and the configured organisation is among the memberships
ProviderAccepts(p) ==
    /\ StepOk(p, "access_token")
    /\ Entry(p, "access_token").resp.error = ""
    /\ Entry(p, "access_token").resp.access_token # ""
    /\ StepOk(p, "user")
    /\ StepOk(p, "org")
    /\ Listed(Entry(p, "org").resp.orgs, org)

\* ------------------------------------------------------------------ C1
\* C1, as claimed: a finished login returned a Session if and only if the
\* provider-side conditions held, and nothing else decided the outcome.
C1_SessionIffProviderAccepts ==
    \A p \in Procs : LoginDone(p) => (result[p].ok <=> ProviderAccepts(p))

\* C1, amended: a finished login returned a Session if and only if the
\* provider-side conditions held and Store.save succeeded.
C1_SessionIffProviderAcceptsAndSaved ==
    \A p \in Procs :
        LoginDone(p) => (result[p].ok <=> (ProviderAccepts(p) /\ StepOk(p, "save")))

\* a login that went through every step and returned a Session
C1_Witness ==
    \E p \in Procs :
        /\ LoginDone(p)
        /\ result[p].ok
        /\ result[p].token \in Uuids
        /\ ProviderAccepts(p)

\* ------------------------------------------------------------------ C2
\* the memberships were fetched and the configured organisation is not among them
GateRefused(p) ==
    /\ loc[p].op = "login"
    /\ StepOk(p, "org")
    /\ ~Listed(Entry(p, "org").resp.orgs, org)

\* C2: when the configured organisation is absent from the fetched
\* memberships, login fails with PermissionDenied "not a member of <org>",
\* Store.save is never invoked and no token is minted or written.
C2_NotMemberDeniedAndNothingSaved ==
    \A p \in Procs :
        GateRefused(p) =>
            /\ pc[p] = "done"
            /\ ~result[p].ok
            /\ result[p].kind = "PermissionDenied"
            /\ result[p].msg = "not a member of " \o org
            /\ ~Has(p, "save")
            /\ loc[p].token = NoToken

\* a login refused at the gate although the account has a membership
C2_Witness ==
    \E p \in Procs :
        /\ GateRefused(p)
        /\ Entry(p, "org").resp.orgs = <<"test_org2">>
        /\ ErrorToString(result[p].kind, result[p].msg)
               = "permission denied: not a member of test_org"

\* ------------------------------------------------------------------ C3
InSave(p) == pc[p] \in {"save_pool", "save_set", "save_expire"}

\* C3: in every login the membership check comes after the token exchange,
\* the profile fetch and the membership fetch have all succeeded and before
\* Store.save; save is invoked at most once and only after the check passed.
C3_GateAfterFetchesBeforeSave ==
    \A p \in Procs :
        loc[p].op = "login" =>
            LET l == log[p]
            IN  /\ \A i \in 1..Len(l) :
                     l[i].step = "gate" =>
                         /\ i = 4
                         /\ l[1].step = "access_token" /\ l[1].st = "ok"
                         /\ l[2].step = "user" /\ l[2].st = "ok"
                         /\ l[3].step = "org" /\ l[3].st = "ok"
                /\ \A i \in 1..Len(l) :
                     l[i].step = "save" =>
                         /\ i = 5
                         /\ l[4].step = "gate" /\ l[4].st = "ok"
                /\ Cardinality({i \in 1..Len(l) : l[i].step = "save"}) <= 1
                /\ (InSave(p) \/ loc[p].token # NoToken) => Has(p, "save")

\* a login whose save has written its record, after the gate let it through
C3_Witness ==
    \E p \in Procs :
        /\ loc[p].op = "login"
        /\ pc[p] = "save_expire"
        /\ store[loc[p].token].present
        /\ Len(log[p]) = 5
        /\ log[p][4].step = "gate"

\* ------------------------------------------------------------------ C8
ProviderSteps == {"access_token", "user", "org"}

\* C8: login issues each remote step at most once; no step is issued after
\* one that failed, and login returns that step's error.
C8_NoRetryNoStepAfterFailure ==
    \A p \in Procs :
        loc[p].op = "login" =>
            LET l == log[p]
                last == l[Len(l)]
            IN  /\ \A i, j \in 1..Len(l) : l[i].step = l[j].step => i = j
                /\ \A i \in 1..(Len(l) - 1) : l[i].st = "ok"
                /\ last.st = "fail" =>
                     /\ pc[p] = "done"
                     /\ ~result[p].ok
                     /\ (last.step \in ProviderSteps /\ last.resp.net = "transport") =>
                            /\ result[p].kind = "ConnectionError"
                            /\ result[p].msg = "getting " \o last.step \o ": " \o NetErrorText
                     /\ (last.step \in ProviderSteps /\ last.resp.net = "parse") =>
                            /\ result[p].kind = "SerializationError"
                            /\ result[p].msg = "reading " \o last.step \o ": " \o ParseErrorText
                     /\ last.step = "gate" => result[p].kind = "PermissionDenied"
                     /\ last.step = "save" => result[p].kind = "ConnectionError"

\* a login that stopped at the profile fetch, the second step, when its
\* transport failed
C8_Witness ==
    \E p \in Procs :
        /\ LoginDone(p)
        /\ Len(log[p]) = 2
        /\ log[p][2].step = "user"
        /\ log[p][2].st = "fail"
        /\ log[p][2].resp.net = "transport"
        /\ result[p].msg = "getting user: error sending request"

\* ------------------------------------------------------------------ C9
\* the token exchange was answered with a body whose error field is not empty
ProviderError(p) ==
    /\ loc[p].op = "login"
    /\ StepOk(p, "access_token")
    /\ Entry(p, "access_token").resp.error # ""

C10_Status400IsConnectionError ==
    \A p \in Procs :
        ( /\ loc[p].op = "login"
          /\ StepOk(p, "access_token")
          /\ Entry(p, "access_token").resp.status = 400 ) =>
            /\ pc[p] = "done"
            /\ ErrorToString(result[p].kind, result[p].msg)
                   = "connection error: GitHub returned status code: 400 Bad Request"

\* ------------------------------------------------------------------ C4
\* a save has drawn the token t and has not returned yet
InFlight(t) ==
    \E p \in Procs : pc[p] \in {"save_set", "save_expire"} /\ loc[p].token = t

\* C4: once no save is in progress on a token, a record exists under it if
\* and only if a login that minted it returned successfully and it has
\* neither expired nor been deleted; a login that fails leaves no record.
C4_RecordIffLiveSession ==
    \A t \in Tokens :
        ~InFlight(t) =>
            (store[t].present <=> (t \in issued /\ t \notin deleted /\ t \notin expired))

\* ------------------------------------------------------------------ C5
\* the User save was called with when it drew the token t
SavedUser(t) == minted[CHOOSE i \in 1..Len(minted) : UuidNames[i] = t]

\* a get that ran its GET on a record that was there
GotLiveRecord(p) ==
    /\ pc[p] = "done"
    /\ loc[p].op = "session"
    /\ log[p][1].st = "ok"
    /\ log[p][1].resp.present

\* C5: get(save(u)) returns a User equal to u field for field, for every
\* User u, while the record has not expired and has not been deleted.
C5_GetReturnsSavedUser ==
    \A p \in Procs :
        GotLiveRecord(p) =>
            /\ result[p].ok
            /\ result[p].user = SavedUser(loc[p].arg)

\* ------------------------------------------------------------------ C6
\* a get whose GET ran, on a reachable store, after delete had returned Ok
\* for the token or after the store had expired it
GotAfterGone(p) ==
    /\ pc[p] = "done"
    /\ loc[p].op = "session"
    /\ log[p][1].st = "ok"
    /\ log[p][1].resp.gone

\* C6: after delete(token) returned Ok or the TTL elapsed, a later get(token)
\* on a reachable store fails with a not-found or permission-denied error,
\* never with a ConnectionError, and never returns a User.
C6_GetAfterGoneIsDenied ==
    \A p \in Procs :
        GotAfterGone(p) =>
            /\ ~result[p].ok
            /\ result[p].kind \in {"NotFound", "PermissionDenied"}
            /\ result[p].kind # "ConnectionError"
            /\ ~store[loc[p].arg].present

\* a get on a minted token after its logout returned Ok
C6_Witness ==
    \E p \in Procs :
        /\ GotAfterGone(p)
        /\ loc[p].arg \in Uuids
        /\ loc[p].arg \in deleted
        /\ ErrorToString(result[p].kind, result[p].msg) = "permission denied: no session"

\* ------------------------------------------------------------------ C7
\* C7: every record save wrote carries the configured TTL; once the save is
\* over, no record is in the store without an expiry.
C7_EveryRecordHasExpiry ==
    \A t \in Tokens : (store[t].present /\ ~InFlight(t)) => store[t].ttl

\* ------------------------------------------------------------------ C11
\* the token exchange was answered with a body that has no error and no token
EmptyAccessToken(p) ==
    /\ loc[p].op = "login"
    /\ StepOk(p, "access_token")
    /\ Entry(p, "access_token").resp.error = ""
    /\ Entry(p, "access_token").resp.access_token = ""

\* C11: when the token-exchange body carries no error field and an empty or
\* missing access token, login fails with PermissionDenied, fetches neither
\* the profile nor the memberships and never calls Store.save.
C11_EmptyTokenIsPermissionDenied ==
    \A p \in Procs :
        EmptyAccessToken(p) =>
            /\ pc[p] = "done"
            /\ ~result[p].ok
            /\ result[p].kind = "PermissionDenied"
            /\ Len(log[p]) = 1
            /\ ~Has(p, "user") /\ ~Has(p, "org") /\ ~Has(p, "save")
            /\ loc[p].token = NoToken

\* the provider answered 200 with neither an error nor a token
C11_Witness ==
    \E p \in Procs :
        /\ EmptyAccessToken(p)
        /\ Entry(p, "access_token").resp.status = 200
        /\ ErrorToString(result[p].kind, result[p].msg)
               = "permission denied: access token is empty"

\* ------------------------------------------------------------------ C12
\* C12: for each of the three provider calls of login, a transport failure
\* yields ConnectionError and an unparseable response SerializationError,
\* and the message names the step that failed (access_token, user, org).
C12_FetchFailureKindNamesStep ==
    \A p \in Procs :
        loc[p].op = "login" =>
            \A i \in 1..Len(log[p]) :
                LET e == log[p][i]
                IN  (e.step \in ProviderSteps /\ e.st # "pending") =>
                        /\ e.resp.net = "transport" =>
                               /\ pc[p] = "done"
                               /\ result[p].kind = "ConnectionError"
                               /\ result[p].msg = "getting " \o e.step \o ": " \o NetErrorText
                        /\ e.resp.net = "parse" =>
                               /\ pc[p] = "done"
                               /\ result[p].kind = "SerializationError"
                               /\ result[p].msg = "reading " \o e.step \o ": " \o ParseErrorText

\* the membership fetch, the third call, returned a body that does not parse
C12_Witness ==
    \E p \in Procs :
        /\ LoginDone(p)
        /\ Len(log[p]) = 3
        /\ log[p][3].step = "org"
        /\ log[p][3].resp.net = "parse"
        /\ ErrorToString(result[p].kind, result[p].msg)
               = "serialization error: reading org: error decoding response body"

\* ------------------------------------------------------------------ C13
\* the repo.save call of p's login returned an error
SaveFailed(p) ==
    /\ loc[p].op = "login"
    /\ Has(p, "save")
    /\ Entry(p, "save").st = "fail"

\* C13: if Store.save fails, with whatever error kind, login returns a
\* ConnectionError that wraps the store's error and never a Session; a
\* Session is returned only with a token whose record was written, with its
\* expiry, before login returned.
C13_SaveFailureFailsLogin ==
    /\ \A p \in Procs :
          SaveFailed(p) =>
              /\ pc[p] = "done"
              /\ ~result[p].ok
              /\ result[p].kind = "ConnectionError"
              /\ result[p].msg \in {ErrorToString("ConnectionError", PoolErrorText),
                                    ErrorToString("ConnectionError", RedisErrorText)}
              /\ result[p].token = NoToken
              /\ loc[p].token \notin issued
    /\ \A p \in Procs :
          (LoginDone(p) /\ result[p].ok) =>
              /\ StepOk(p, "save")
              /\ result[p].token = loc[p].token
              /\ result[p].token \in issued
              /\ \/ store[result[p].token].present /\ store[result[p].token].ttl
                 \/ result[p].token \in deleted \cup expired
    /\ \A k \in ErrorKinds :
          LoginAfterSave(NoUser, Err(k, "x")) = Err("ConnectionError", ErrorToString(k, "x"))

\* a login whose save wrote the record and then lost the connection on EXPIRE
C13_Witness ==
    \E p \in Procs :
        /\ SaveFailed(p)
        /\ loc[p].token \in Uuids
        /\ store[loc[p].token].present
        /\ ErrorToString(result[p].kind, result[p].msg)
               = "connection error: connection error: broken pipe"

\* ------------------------------------------------------------------ C14
StoreSteps == {"save", "get", "del"}

\* the store call of p (save, get or delete) could not get a connection from
\* the pool, or lost the connection while its command ran
StoreCallFailed(p) ==
    /\ pc[p] = "done"
    /\ log[p][Len(log[p])].step \in StoreSteps
    /\ log[p][Len(log[p])].st = "fail"

\* C14: in save, get and delete alike, a pool or connection failure surfaces
\* as a ConnectionError and as no other kind, so that a get that could not
\* reach the store differs from a get that found no session.
C14_StoreFailureIsConnectionError ==
    \A p \in Procs :
        StoreCallFailed(p) =>
            /\ ~result[p].ok
            /\ result[p].kind = "ConnectionError"

\* ------------------------------------------------------------------ C16
\* the tokens new_v4 has returned so far
Minted == {UuidNames[i] : i \in 1..Len(minted)}

\* a record is in the store only under a minted token that has not become
\* absent, and it is all of what save wrote for that token
LifecycleAbsentActiveAbsent ==
    \A t \in Tokens :
        /\ t \in deleted \cup expired => ~store[t].present
        /\ store[t].present =>
               /\ t \in Minted
               /\ store[t].data = EncodeUser(SavedUser(t))

\* a get whose GET command ran on a reachable store
GotReply(p) ==
    /\ pc[p] = "done"
    /\ loc[p].op = "session"
    /\ log[p][1].st = "ok"

\* C16: per token the record goes absent -> active (by the save that minted
\* the token) -> absent (by TTL expiry or logout) and nothing else: a token
\* that has become absent is never active again, and every get on a token
\* either returns the complete saved User or fails.
C16_LifecycleAndGetSavedUserOrFail ==
    /\ LifecycleAbsentActiveAbsent
    /\ \A p \in Procs :
          GotReply(p) =>
              \/ ~result[p].ok /\ ~log[p][1].resp.present
              \/ /\ result[p].ok
                 /\ log[p][1].resp.present
                 /\ result[p].user = SavedUser(loc[p].arg)

\* ------------------------------------------------------------------ C17
\* the step in which the DEL command of p's delete is answered by the store
DelAnswered(p) ==
    /\ pc[p] = "del_cmd"
    /\ pc'[p] = "done"
    /\ log'[p][1].st = "ok"

\* C17: a delete whose DEL ran returns Ok and leaves no record under the
\* token and every other record as it was; when the token had no record
\* (never saved, deleted or expired) the store is unchanged, so a second
\* delete ends with the result and the store of the first.
C17_DeleteAbsentIsOkAndNoChange ==
    [][ \A p \in Procs :
          DelAnswered(p) =>
              /\ result'[p] = Ok(NoUser, NoToken)
              /\ ~store'[loc[p].arg].present
              /\ \A t \in Tokens \ {loc[p].arg} : store'[t] = store[t]
              /\ ~store[loc[p].arg].present => store' = store ]_vars

\* a logout with a token that never had a record returned Ok, and the
\* record of a session is still there
C17_Witness ==
    \E p \in Procs :
        /\ pc[p] = "done"
        /\ loc[p].op = "logout"
        /\ loc[p].arg = ForgedToken
        /\ result[p].ok
        /\ \E t \in Uuids : store[t].present

\* ------------------------------------------------------------------ DefaultSessionManager over any Repo
\* The manager holds an Arc<dyn Repo>; as in default_session_manager_test the
\* Repo behind it may answer a call with any Result.
RepoMessages == {"session", "no session", "Failed to delete"}
RepoErrors == {Err(k, m) : k \in ErrorKinds, m \in RepoMessages}
\* Result<User, Error> of Repo::get and Result<(), Error> of Repo::delete
RepoGetResults == {Ok(ToUser(u), NoToken) : u \in GithubUsers} \cup RepoErrors
RepoDeleteResults == {Ok(NoUser, NoToken)} \cup RepoErrors

\* a manager that answers every failed lookup with "not authenticated"
SessionResultAsPermissionDenied(r) ==
    IF r.ok THEN r ELSE Err("PermissionDenied", "no session")

\* session: self.repo.get(token).await is the value of the function
SessionResult(r) == r
\* logout: self.repo.delete(token).await is the value of the function
LogoutResult(r) == r

\* session(token) up to the await of repo.get(token)
ManagerSession(p) ==
    /\ Free(p)
    /\ \E t \in Tokens :
         loc' = [loc EXCEPT ![p] = [NoLocals EXCEPT !.op = "session", !.arg = t]]
    /\ pc' = [pc EXCEPT ![p] = "repo_get"]
    /\ result' = [result EXCEPT ![p] = NoResult]
    /\ log' = [log EXCEPT ![p] = <<Step("get")>>]
    /\ UNCHANGED <<articles, org, account, store, minted, issued, deleted, expired>>

\* repo.get has returned
ManagerSessionReturn(p) ==
    /\ pc[p] = "repo_get"
    /\ \E r \in RepoGetResults :
         /\ Finish(p, SessionResult(r))
         /\ log' = [log EXCEPT ![p] = Answered(@, IF r.ok THEN "ok" ELSE "fail", r)]
    /\ UNCHANGED <<articles, org, account, store, minted, loc, issued, deleted, expired>>

\* logout(token) up to the await of repo.delete(token)
ManagerLogout(p) ==
    /\ Free(p)
    /\ \E t \in Tokens :
         loc' = [loc EXCEPT ![p] = [NoLocals EXCEPT !.op = "logout", !.arg = t]]
    /\ pc' = [pc EXCEPT ![p] = "repo_delete"]
    /\ result' = [result EXCEPT ![p] = NoResult]
    /\ log' = [log EXCEPT ![p] = <<Step("del")>>]
    /\ UNCHANGED <<articles, org, account, store, minted, issued, deleted, expired>>

\* repo.delete has returned
ManagerLogoutReturn(p) ==
    /\ pc[p] = "repo_delete"
    /\ \E r \in RepoDeleteResults :
         /\ Finish(p, LogoutResult(r))
         /\ log' = [log EXCEPT ![p] = Answered(@, IF r.ok THEN "ok" ELSE "fail", r)]
    /\ UNCHANGED <<articles, org, account, store, minted, loc, issued, deleted, expired>>

ManagerNext ==
    \E p \in Procs :
        \/ ManagerSession(p) \/ ManagerSessionReturn(p)
        \/ ManagerLogout(p) \/ ManagerLogoutReturn(p)

ManagerSpec == Init /\ [][ManagerNext]_vars

\* ------------------------------------------------------------------ C18
\* C18: DefaultSessionManager is a stateless pass-through: session(token)
\* returns exactly what Repo.get(token) returned and logout(token) exactly
\* what Repo.delete(token) returned (same User, same error kind and
\* message), each after exactly one call of the Repo.
C18_ManagerPassesRepoResultThrough ==
    \A p \in Procs :
        /\ pc[p] \in {"repo_get", "repo_delete", "done"} =>
               /\ Len(log[p]) = 1
               /\ log[p][1].step = (IF loc[p].op = "session" THEN "get" ELSE "del")
        /\ pc[p] = "done" =>
               /\ log[p][1].st # "pending"
               /\ result[p] = log[p][1].resp

\* logout handed on the ConnectionError of the Repo, text and all
C18_Witness ==
    \E p \in Procs :
        /\ pc[p] = "done"
        /\ loc[p].op = "logout"
        /\ log[p][1].resp = Err("ConnectionError", "Failed to delete")
        /\ ErrorToString(result[p].kind, result[p].msg)
               = "connection error: Failed to delete"

\* ------------------------------------------------------------------ get on values save did not write
\* The store is shared: a key may hold a value that another writer, or a
\* release with another record format, put there.  Here the key the client
\* presents was never minted by save and holds such a value.
RECURSIVE JoinPipe(_)
JoinPipe(fields) ==
    IF Len(fields) = 0 THEN <<>>
    ELSE IF Len(fields) = 1 THEN fields[1]
    ELSE fields[1] \o <<Pipe>> \o JoinPipe(Tail(fields))

StoredFieldLists ==
    { <<<<"7">>, <<"a">>, <<"u">>, <<"n">>>>,
      <<<<"7">>, <<>>, <<>>, <<>>>>,
      <<<<"+", "7">>, <<"a">>, <<"u">>, <<"n">>>>,
      <<<<"0", "7">>, <<"a">>, <<"u">>, <<"n">>>>,
      <<>>,
      <<<<"7">>>>,
      <<<<"7">>, <<"a">>>>,
      <<<<"7">>, <<"a">>, <<"u">>>>,
      <<<<"7">>, <<"a">>, <<"u">>, <<"n">>, <<"x">>>>,
      <<<<"7">>, <<"a">>, <<"u">>, <<"n">>, <<"x">>, <<"y">>>>,
      <<<<"x">>, <<"a">>, <<"u">>, <<"n">>>>,
      <<<<>>, <<"a">>, <<"u">>, <<"n">>>>,
      <<<<"-", "1">>, <<"a">>, <<"u">>, <<"n">>>>,
      <<<<"7", " ">>, <<"a">>, <<"u">>, <<"n">>>>,
      <<<<"1", "8", "4", "4", "6", "7", "4", "4", "0", "7",
          "3", "7", "0", "9", "5", "5", "1", "6", "1", "6">>, <<"a">>, <<"u">>, <<"n">>>>,
      <<<<"x">>, <<"a">>, <<"u">>, <<"n">>, <<"y">>>> }

StoredValues == {JoinPipe(f) : f \in StoredFieldLists}

InitStored ==
    /\ org \in ConfiguredOrgs
    /\ account \in [Procs -> GithubUsers]
    /\ \A p, q \in Procs : p <= q => account[p].id <= account[q].id
    /\ \E v \in StoredValues, e \in BOOLEAN :
         store = [t \in Tokens |->
                     IF t = ForgedToken
                     THEN [present |-> TRUE, data |-> v, ttl |-> e]
                     ELSE NoRecord]
    /\ minted = <<>>
    /\ pc = [p \in Procs |-> "idle"]
    /\ loc = [p \in Procs |-> NoLocals]
    /\ result = [p \in Procs |-> NoResult]
    /\ log = [p \in Procs |-> <<>>]
    /\ issued = {}
    /\ deleted = {}
    /\ expired = {}
    /\ articles = NoArticles

StoredNext ==
    \/ \E p \in Procs : Session(p) \/ GetPool(p) \/ GetCmd(p)
    \/ \E t \in Tokens : TtlExpire(t)

StoredSpec == InitStored /\ [][StoredNext]_vars

\* ------------------------------------------------------------------ C19
\* a get whose GET command found a record; ReadValue is the value it read
GotRecord(p) == GotReply(p) /\ log[p][1].resp.present
ReadValue(p) == log[p][1].resp.data

\* the number of '|'-separated fields of a value, and the first of them
FieldCount(v) == Cardinality({i \in 1..Len(v) : v[i] = Pipe}) + 1
FirstField(v) ==
    IF FindFirst(v, Pipe, 1) = 0 THEN v ELSE SubSeq(v, 1, FindFirst(v, Pipe, 1) - 1)
FirstFieldIsU64(v) == ParseU64(FirstField(v)).ok

FailedWithSerializationError(p) ==
    ~result[p].ok /\ result[p].kind = "SerializationError"

\* C19, as claimed: get on a value that does not have exactly four
\* '|'-separated fields (fewer or more), or whose first field is not an
\* unsigned 64-bit integer, fails with SerializationError and returns no User.
C19_NotFourFieldsIsSerializationError ==
    \A p \in Procs :
        (GotRecord(p) /\ (FieldCount(ReadValue(p)) # 4 \/ ~FirstFieldIsU64(ReadValue(p)))) =>
            FailedWithSerializationError(p)

\* C19, amended: get on a value with fewer than four '|'-separated fields,
\* or whose first field is not an unsigned 64-bit integer, fails with
\* SerializationError; a value with more than four fields and a valid first
\* field is read as a User whose name is all that follows the third '|'.
C19_FewerThanFourFieldsIsSerializationError ==
    \A p \in Procs :
        GotRecord(p) =>
            LET v == ReadValue(p)
            IN  /\ (FieldCount(v) < 4 \/ ~FirstFieldIsU64(v)) =>
                       FailedWithSerializationError(p)
                /\ (FieldCount(v) >= 4 /\ FirstFieldIsU64(v)) =>
                       /\ result[p].ok
                       /\ FieldCount(result[p].user.name) = FieldCount(v) - 3
                       /\ EncodeUser([result[p].user EXCEPT !.id = 0])
                              = <<"0">> \o SubSeq(v, Len(FirstField(v)) + 1, Len(v))

\* a get on a value of three fields failed with "Invalid data format"
C19_Witness ==
    \E p \in Procs :
        /\ GotRecord(p)
        /\ FieldCount(ReadValue(p)) = 3
        /\ ErrorToString(result[p].kind, result[p].msg)
               = "serialization error: Invalid data format"

\* ------------------------------------------------------------------ save, then get, for any profile
\* The profiles whose fields may hold the delimiter.  Each handler starts
\* where a login for such a profile has passed the membership check and
\* calls repo.save(user); get follows with the token save returned.
CodecUsers ==
    [ id : {0, 7},
      login : {<<"a">>, <<"a", "|", "b">>},
      avatar_url : {<<"u">>, <<"u", "|", "v">>},
      name : {<<>>, <<"n">>, <<"n", "|", "m">>, <<"|">>} ]

\* the log of a login that has passed the gate for the profile u
LogAtSave(u, o) ==
    << [step |-> "access_token", st |-> "ok",
        resp |-> [net |-> "ok", status |-> 200, access_token |-> "test_access_token",
                  error |-> "", error_description |-> ""]],
       [step |-> "user", st |-> "ok", resp |-> [net |-> "ok", user |-> u]],
       [step |-> "org", st |-> "ok", resp |-> [net |-> "ok", orgs |-> <<o>>]],
       [step |-> "gate", st |-> "ok", resp |-> <<>>],
       Step("save") >>

InitAtSave ==
    /\ org \in ConfiguredOrgs
    /\ account \in [Procs -> CodecUsers]
    \* one client, whichever handler serves it
    /\ \A p, q \in Procs : account[p] = account[q]
    /\ store = [t \in Tokens |-> NoRecord]
    /\ minted = <<>>
    /\ pc = [p \in Procs |-> "save_pool"]
    /\ loc = [p \in Procs |->
                 [NoLocals EXCEPT !.op = "login", !.access_token = "test_access_token",
                                  !.gh_user = account[p], !.user = ToUser(account[p])]]
    /\ result = [p \in Procs |-> NoResult]
    /\ log = [p \in Procs |-> LogAtSave(account[p], org)]
    /\ issued = {}
    /\ deleted = {}
    /\ expired = {}
    /\ articles = NoArticles

RoundTripNext ==
    \E p \in Procs :
        \/ SavePool(p) \/ SaveSet(p) \/ SaveExpire(p)
        \/ Session(p) \/ GetPool(p) \/ GetCmd(p)

RoundTripSpec == InitAtSave /\ [][RoundTripNext]_vars

\* ------------------------------------------------------------------ C20
HasPipe(s) == \E i \in 1..Len(s) : s[i] = Pipe

\* get on a live record returned the User it was saved with
RoundTripHolds(p) ==
    result[p].ok /\ result[p].user = SavedUser(loc[p].arg)

\* C20, as claimed: for a User whose display name contains '|',
\* get(save(u)) does not return u.
C20_PipeInNameBreaksRoundTrip ==
    \A p \in Procs :
        (GotLiveRecord(p) /\ HasPipe(SavedUser(loc[p].arg).name)) => ~RoundTripHolds(p)

\* C20, amended: get(save(u)) returns a User, and it differs from u exactly
\* when the login or the avatar_url of u contains '|'; a '|' in the display
\* name alone comes back unchanged.
C20_PipeInLoginOrAvatarBreaksRoundTrip ==
    \A p \in Procs :
        GotLiveRecord(p) =>
            LET u == SavedUser(loc[p].arg)
            IN  /\ result[p].ok
                /\ RoundTripHolds(p) <=> (~HasPipe(u.login) /\ ~HasPipe(u.avatar_url))

\* a User whose name contains '|' came back from get as it was saved
C20_Witness ==
    \E p \in Procs :
        /\ GotLiveRecord(p)
        /\ SavedUser(loc[p].arg).name = <<"n", "|", "m">>
        /\ RoundTripHolds(p)

\* ------------------------------------------------------------------ C21
\* the memberships p's login fetched, once GET /user/orgs was parsed
FetchedOrgs(p) == Entry(p, "org").resp.orgs

\* the gate of p's login let it through to Store.save
GatePassed(p) ==
    \E i \in 1..Len(log[p]) : log[p][i].step = "gate" /\ log[p][i].st = "ok"

\* C21: the gate passes only when some fetched handle equals the configured
\* organisation exactly, letter case included; a handle that differs in
\* case, one that contains the configured name or is contained in it, and
\* an empty list do not pass.
C21_GateIsExactCaseSensitiveMatch ==
    \A p \in Procs :
        (loc[p].op = "login" /\ StepOk(p, "org")) =>
            /\ GatePassed(p) <=> \E i \in 1..Len(FetchedOrgs(p)) : FetchedOrgs(p)[i] = org
            /\ FetchedOrgs(p) \in {<<>>, <<"Test_Org">>, <<"test_org2">>, <<"test">>,
                                   <<"test_org2", "Test_Org">>} =>
                   /\ ~GatePassed(p)
                   /\ pc[p] = "done"
                   /\ result[p] = NotMemberError(org)

\* a member of Test_Org was refused at the gate for test_org
C21_Witness ==
    \E p \in Procs :
        /\ loc[p].op = "login"
        /\ StepOk(p, "org")
        /\ FetchedOrgs(p) = <<"test_org2", "Test_Org">>
        /\ org = "test_org"
        /\ ~GatePassed(p)
        /\ result[p].kind = "PermissionDenied"

\* ------------------------------------------------------------------ C22
\* the Session of a successful login: the user is the fetched profile,
\* field for field, the token is the one save drew, and save was called
\* with that user
SessionIsProfileAndSavedToken(p) ==
    LET profile == Entry(p, "user").resp.user
    IN  /\ result[p].user.id = profile.id
        /\ result[p].user.login = profile.login
        /\ result[p].user.name = profile.name
        /\ result[p].user.avatar_url = profile.avatar_url
        /\ result[p].token = loc[p].token
        /\ result[p].token \in Minted
        /\ SavedUser(result[p].token) = result[p].user

\* C22: a successful login returns a Session whose user has exactly the
\* fields of the fetched profile and whose token is the one Store.save
\* returned, having handed that same user to Store.save; so a later
\* session(session.token), while the record is there, returns session.user.
C22_SessionUserIsProfileAndComesBack ==
    /\ \A p \in Procs :
          (LoginDone(p) /\ result[p].ok) => SessionIsProfileAndSavedToken(p)
    /\ \A q \in Procs :
          GotLiveRecord(q) => (result[q].ok /\ result[q].user = SavedUser(loc[q].arg))

\* ------------------------------------------------------------------ GithubAuthenticator::new, start_login
\* what a deployment can put in its configuration; each may be left empty
ClientIds == {"", "test_client_id", "Iv1.0a"}
ClientSecrets == {"", "test_client_secret", "s3cret"}
OrgNames == {"", "test_org", "Test_Org"}
BaseUrls == {"", "website.local", "https://blog.example"}

\* the fields of a GithubAuthenticator (the repo handle aside)
Authenticator(client_id, client_secret, o, base_url) ==
    [org |-> o, client_id |-> client_id, client_secret |-> client_secret,
     url |-> "https://github.com", api_url |-> "https://api.github.com",
     base_url |-> base_url]
NoAuthenticator ==
    [org |-> "", client_id |-> "", client_secret |-> "", url |-> "", api_url |-> "",
     base_url |-> ""]

\* Result<GithubAuthenticator, Error>
Constructed(auth) == [ok |-> TRUE, kind |-> "", msg |-> "", value |-> auth]
NotConstructed(msg) ==
    [ok |-> FALSE, kind |-> "InitializationError", msg |-> msg, value |-> NoAuthenticator]

\* a constructor that takes any organisation name
GithubAuthenticatorNewWithoutOrgCheck(client_id, client_secret, o, base_url) ==
    IF client_id = "" THEN NotConstructed("Client ID is empty")
    ELSE IF client_secret = "" THEN NotConstructed("Client Secret is empty")
    ELSE Constructed(Authenticator(client_id, client_secret, o, base_url))

GithubAuthenticatorNew(client_id, client_secret, o, base_url) ==
    IF client_id = "" THEN NotConstructed("Client ID is empty")
    ELSE IF client_secret = "" THEN NotConstructed("Client Secret is empty")
    ELSE IF o = "" THEN NotConstructed("Organization is empty")
    ELSE Constructed(Authenticator(client_id, client_secret, o, base_url))

\* a handler builds its authenticator from a configuration
New(p) ==
    /\ Free(p)
    /\ \E client_id \in ClientIds, client_secret \in ClientSecrets,
          o \in OrgNames, base_url \in BaseUrls :
         /\ loc' = [loc EXCEPT ![p] =
                       [op |-> "new", client_id |-> client_id,
                        client_secret |-> client_secret, org |-> o,
                        base_url |-> base_url]]
         /\ Finish(p, GithubAuthenticatorNew(client_id, client_secret, o, base_url))
    /\ log' = [log EXCEPT ![p] = <<>>]
    /\ UNCHANGED <<articles, org, account, store, minted, issued, deleted, expired>>

\* an authorization URL that names no callback
StartLoginUrlWithoutRedirect(auth) ==
    auth.url \o "/login/oauth/authorize?client_id=" \o auth.client_id
        \o "&scope=read:user,read:org"

StartLoginUrl(auth) ==
    auth.url \o "/login/oauth/authorize?client_id=" \o auth.client_id
        \o "&scope=read:user,read:org&redirect_uri=" \o auth.base_url
        \o "/auth/login/callback"

\* Result<String, Error> of start_login
StartLoginResult(auth) == [ok |-> TRUE, kind |-> "", msg |-> "", url |-> StartLoginUrl(auth)]

\* start_login on the authenticator the handler built: no await in it
StartLogin(p) ==
    /\ pc[p] = "done"
    /\ loc[p].op = "new"
    /\ result[p].ok
    /\ loc' = [loc EXCEPT ![p] = [op |-> "start_login", auth |-> result[p].value]]
    /\ Finish(p, StartLoginResult(result[p].value))
    /\ UNCHANGED <<articles, org, account, store, minted, log, issued, deleted, expired>>

ConfigNext == \E p \in Procs : New(p) \/ StartLogin(p)

ConfigSpec == Init /\ [][ConfigNext]_vars

\* ------------------------------------------------------------------ C23
\* p has run GithubAuthenticator::new
NewDone(p) == pc[p] = "done" /\ loc[p].op = "new"

\* C23: new fails, with InitializationError, exactly when the client id,
\* the client secret or the organisation name is empty; the first empty one
\* in that order is the one reported and the base URL is not looked at.
\* Otherwise it returns an authenticator with the given fields, so a
\* constructed authenticator has a non-empty client id, secret and
\* organisation.
C23_NewFailsIffAFieldIsEmpty ==
    \A p \in Procs :
        NewDone(p) =>
            LET a == loc[p]
                r == result[p]
            IN  /\ ~r.ok <=> (a.client_id = "" \/ a.client_secret = "" \/ a.org = "")
                /\ ~r.ok => r.kind = "InitializationError"
                /\ a.client_id = "" => r.msg = "Client ID is empty"
                /\ (a.client_id # "" /\ a.client_secret = "") =>
                       r.msg = "Client Secret is empty"
                /\ (a.client_id # "" /\ a.client_secret # "" /\ a.org = "") =>
                       r.msg = "Organization is empty"
                /\ r.ok =>
                       /\ r.value.client_id = a.client_id /\ r.value.client_id # ""
                       /\ r.value.client_secret = a.client_secret
                       /\ r.value.client_secret # ""
                       /\ r.value.org = a.org /\ r.value.org # ""
                       /\ r.value.base_url = a.base_url

\* new refused an empty organisation name although the client id and the
\* secret were given, and did so with an empty base URL
C23_Witness ==
    \E p \in Procs :
        /\ NewDone(p)
        /\ loc[p].client_id # "" /\ loc[p].client_secret # ""
        /\ loc[p].org = "" /\ loc[p].base_url = ""
        /\ result[p] = NotConstructed("Organization is empty")

\* ------------------------------------------------------------------ C24
\* p has run start_login on its authenticator
StartLoginDone(p) == pc[p] = "done" /\ loc[p].op = "start_login"

\* x occurs in s
Contains(s, x) ==
    \E i \in 1..(Len(s) - Len(x) + 1) : SubSeq(s, i, i + Len(x) - 1) = x

C25_StartLoginUrlEndsAtScope ==
    \A p \in Procs :
        StartLoginDone(p) =>
            /\ result[p].ok
            /\ result[p].url =
                 loc[p].auth.url \o "/login/oauth/authorize?client_id="
                     \o loc[p].auth.client_id \o "&scope=read:user,read:org"

\* ------------------------------------------------------------------ concurrent logins and logouts
\* one handler and one token more than Spec has, so that calls overlap
ConcProcs == 1..(NumProcs + 1)
ConcTokens == {UuidNames[i] : i \in 1..(NumTokens + 1)} \cup {ForgedToken}

\* every handler has taken its client through the provider and the gate and
\* is about to call Store.save
InitConcurrent ==
    /\ org \in ConfiguredOrgs
    /\ account \in [ConcProcs -> GithubUsers]
    /\ \A p, q \in ConcProcs : p <= q => account[p].id <= account[q].id
    /\ store = [t \in ConcTokens |-> NoRecord]
    /\ minted = <<>>
    /\ pc = [p \in ConcProcs |-> "save_pool"]
    /\ loc = [p \in ConcProcs |->
                 [NoLocals EXCEPT !.op = "login", !.access_token = "test_access_token",
                                  !.gh_user = account[p], !.user = ToUser(account[p])]]
    /\ result = [p \in ConcProcs |-> NoResult]
    /\ log = [p \in ConcProcs |-> LogAtSave(account[p], org)]
    /\ issued = {}
    /\ deleted = {}
    /\ expired = {}
    /\ articles = NoArticles

\* the calls of the handlers, in any order; a client logs out with a token
\* a login gave out
ConcurrentNext ==
    \E p \in ConcProcs :
        \/ SavePool(p) \/ SaveSet(p) \/ SaveExpire(p)
        \/ (Logout(p) /\ loc'[p].arg \in issued)
        \/ DeletePool(p) \/ DeleteCmd(p)

ConcurrentSpec == InitConcurrent /\ [][ConcurrentNext]_vars

\* ------------------------------------------------------------------ C26
\* the step is one of handler p's
Moved(p) == pc'[p] # pc[p] \/ loc'[p] # loc[p] \/ result'[p] # result[p]

\* the token of the call p is running: the one save drew for its login, or
\* the one its logout was called with
OwnToken(p) == IF loc'[p].op = "login" THEN loc'[p].token ELSE loc'[p].arg

\* p's login returns its Session in this step
LoginSucceeds(p) ==
    /\ loc[p].op = "login"
    /\ pc[p] = "save_expire"
    /\ pc'[p] = "done"
    /\ result'[p].ok

\* no two logins hold the same token
TokensDistinct ==
    \A p, q \in ConcProcs :
        (p # q /\ loc[p].op = "login" /\ loc[q].op = "login"
              /\ loc[p].token # NoToken) => loc[p].token # loc[q].token

\* C26: however logins and logouts interleave, a login that succeeds has
\* created the one record under its own token, a token no other login
\* holds or was given, and no step of a login or of logout(t) changes a
\* record under another token: the sessions of other users and the other
\* sessions of the same user stay as they were saved.
C26_CallsTouchOnlyTheirOwnRecord ==
    /\ []TokensDistinct
    /\ [][\A p \in ConcProcs :
            /\ Moved(p) =>
                  \A t \in ConcTokens : t # OwnToken(p) => store'[t] = store[t]
            /\ LoginSucceeds(p) =>
                  /\ loc[p].token \notin issued
                  /\ result'[p].token = loc[p].token
                  /\ store'[loc[p].token] =
                        [present |-> TRUE, data |-> EncodeUser(loc[p].user),
                         ttl |-> TRUE]]_vars

\* two sessions of the same user were created, logout of one returned Ok
\* and its record is gone, the other session's record is still there
C26_Witness ==
    \E p \in ConcProcs :
        /\ loc[p].op = "logout" /\ pc[p] = "done" /\ result[p].ok
        /\ loc[p].arg \in issued
        /\ ~store[loc[p].arg].present
        /\ \E t \in issued \ {loc[p].arg} :
              /\ store[t].present
              /\ store[t].data = EncodeUser(minted[1])
              /\ minted[1] = minted[2]

\* ------------------------------------------------------------------ the HTTP adapter
\* State.cookie_name and State.base_url, as the deployment configured them
CookieName == "session"
BaseUrl == "website.local"

\* the cookies of a request: none, or the session cookie with a token the
\* client was given or made up
Jars ==
    {{}} \cup {{[name |-> CookieName, value |-> t]} : t \in Presentable}

\* req.cookie(name)
NoCookie == [found |-> FALSE, value |-> NoToken]
ReadCookie(jar, name) ==
    IF \E c \in jar : c.name = name
    THEN [found |-> TRUE, value |-> (CHOOSE c \in jar : c.name = name).value]
    ELSE NoCookie

\* Error::to_http_response: the status of each kind
StatusOf(kind) ==
    CASE kind = "InitializationError" -> 500
      [] kind = "ConnectionError" -> 500
      [] kind = "SerializationError" -> 400
      [] kind = "PermissionDenied" -> 403
      [] kind = "NotFound" -> 404
      [] kind = "InvalidInput" -> 400

NoBody == [text |-> "", user |-> NoUser]
ToHttpResponse(r) ==
    [status |-> StatusOf(r.kind), body |-> [text |-> r.msg, user |-> NoUser],
     set_cookie |-> {}, location |-> ""]

\* GET /auth/login/callback, once login has returned r
LoginCallbackResponse(r) ==
    IF ~r.ok
    THEN ToHttpResponse(r)
    ELSE [status |-> 200, body |-> NoBody,
          set_cookie |-> {[name |-> CookieName, value |-> r.token, domain |-> BaseUrl,
                           path |-> "/", secure |-> TRUE, http_only |-> TRUE]},
          location |-> BaseUrl]

\* the name under which a handler that looks for "sid" finds the cookie
LogoutCookieSid(cookie_name) == "sid"

\* the cookie GET /auth/logout reads
LogoutCookie(cookie_name) == cookie_name

\* GET /auth/logout, once logout has returned r
LogoutResponse(r) ==
    IF r.ok
    THEN [status |-> 200, body |-> NoBody, set_cookie |-> {}, location |-> ""]
    ELSE ToHttpResponse(r)

\* a load_user that lets a request without the cookie through as nobody
LoadUserNoCookieAsAnonymous == Ok(NoUser, NoToken)

\* load_user for a request without the cookie
LoadUserNoCookie == Err("PermissionDenied", "no session found")

\* GET /auth/me, once load_user has returned r
MeResponse(r) ==
    IF r.ok
    THEN [status |-> 200, body |-> [text |-> "", user |-> r.user], set_cookie |-> {},
          location |-> ""]
    ELSE ToHttpResponse(r)

\* the locals of a handler that serves /auth/me or /auth/logout
HttpLocals(op, arg, http, jar) ==
    [op |-> op, access_token |-> "", gh_user |-> NoUser, user |-> NoUser,
     token |-> NoToken, arg |-> arg, http |-> http, jar |-> jar]

\* GET /auth/me up to the first await of sessions.session(cookie value), or
\* to its response when the request has no session cookie
MeRequest(p) ==
    /\ Free(p)
    /\ \E jar \in Jars :
         LET c == ReadCookie(jar, CookieName)
         IN  IF c.found
             THEN /\ loc' = [loc EXCEPT ![p] = HttpLocals("session", c.value, "me", jar)]
                  /\ pc' = [pc EXCEPT ![p] = "get_pool"]
                  /\ result' = [result EXCEPT ![p] = NoResult]
                  /\ log' = [log EXCEPT ![p] = <<Step("get")>>]
             ELSE /\ loc' = [loc EXCEPT ![p] = HttpLocals("", NoToken, "me", jar)]
                  /\ Finish(p, LoadUserNoCookie)
                  /\ log' = [log EXCEPT ![p] = <<>>]
    /\ UNCHANGED <<articles, org, account, store, minted, issued, deleted, expired>>

\* GET /auth/logout up to the first await of sessions.logout(cookie value), or
\* to its response when the request has no session cookie
LogoutRequest(p) ==
    /\ Free(p)
    /\ \E jar \in Jars :
         LET c == ReadCookie(jar, LogoutCookie(CookieName))
         IN  IF c.found
             THEN /\ loc' = [loc EXCEPT ![p] = HttpLocals("logout", c.value, "logout", jar)]
                  /\ pc' = [pc EXCEPT ![p] = "del_pool"]
                  /\ result' = [result EXCEPT ![p] = NoResult]
                  /\ log' = [log EXCEPT ![p] = <<Step("del")>>]
             ELSE /\ loc' = [loc EXCEPT ![p] = HttpLocals("", NoToken, "logout", jar)]
                  /\ Finish(p, Ok(NoUser, NoToken))
                  /\ log' = [log EXCEPT ![p] = <<>>]
    /\ UNCHANGED <<articles, org, account, store, minted, issued, deleted, expired>>

\* the requests the adapter serves once the provider has let the client of
\* /auth/login/callback through: the rest of its login, then /auth/me
\* (load_user) and /auth/logout, each followed by the response built from
\* what the call returned
HttpNext ==
    \/ \E p \in Procs :
         \/ SavePool(p) \/ SaveSet(p) \/ SaveExpire(p)
         \/ MeRequest(p) \/ GetPool(p) \/ GetCmd(p)
         \/ LogoutRequest(p) \/ DeletePool(p) \/ DeleteCmd(p)
    \/ \E t \in Tokens : TtlExpire(t)

\* every handler has taken its client through the provider and the gate and
\* is about to call Store.save
InitHttp ==
    /\ org \in ConfiguredOrgs
    /\ account \in [Procs -> GithubUsers]
    /\ \A p, q \in Procs : p <= q => account[p].id <= account[q].id
    /\ store = [t \in Tokens |-> NoRecord]
    /\ minted = <<>>
    /\ pc = [p \in Procs |-> "save_pool"]
    /\ loc = [p \in Procs |->
                 [NoLocals EXCEPT !.op = "login", !.access_token = "test_access_token",
                                  !.gh_user = account[p], !.user = ToUser(account[p])]]
    /\ result = [p \in Procs |-> NoResult]
    /\ log = [p \in Procs |-> LogAtSave(account[p], org)]
    /\ issued = {}
    /\ deleted = {}
    /\ expired = {}
    /\ articles = NoArticles

HttpSpec == InitHttp /\ [][HttpNext]_vars

\* the handler p has sent its response
Responded(p) == pc[p] = "done"
\* which endpoint p served
Endpoint(p) ==
    CASE loc[p].op = "login" -> "callback"
      [] loc[p].op = "session" -> "me"
      [] loc[p].op = "logout" -> "logout"
      [] OTHER -> loc[p].http
\* the response p sent
Response(p) ==
    CASE Endpoint(p) = "callback" -> LoginCallbackResponse(result[p])
      [] Endpoint(p) = "me" -> MeResponse(result[p])
      [] Endpoint(p) = "logout" -> LogoutResponse(result[p])

\* ------------------------------------------------------------------ C27
\* the last store call of p's request failed in transport
StoreTransportFailed(p) ==
    /\ Responded(p)
    /\ Len(log[p]) > 0
    /\ log[p][Len(log[p])].step \in StoreSteps
    /\ log[p][Len(log[p])].st = "fail"

\* the store told p's /auth/me that the cookie's token has no record
TokenAbsent(p) ==
    /\ Responded(p)
    /\ loc[p].op = "session"
    /\ log[p][1].st = "ok"
    /\ ~log[p][1].resp.present

\* C27: every error kind has its fixed status (InitializationError and
\* ConnectionError 500, SerializationError and InvalidInput 400,
\* PermissionDenied 403, NotFound 404) and a failed request is answered with
\* the status of its error's kind; so a request whose token is absent or
\* expired is answered 403 or 404, never 500, and a request whose store call
\* failed in transport is answered 500.
C27_StatusFollowsKindAndCause ==
    /\ \A k \in ErrorKinds :
          StatusOf(k) =
              CASE k \in {"InitializationError", "ConnectionError"} -> 500
                [] k \in {"SerializationError", "InvalidInput"} -> 400
                [] k = "PermissionDenied" -> 403
                [] k = "NotFound" -> 404
    /\ \A p \in Procs :
          /\ (Responded(p) /\ ~result[p].ok) =>
                 Response(p).status = StatusOf(result[p].kind)
          /\ TokenAbsent(p) => Response(p).status \in {403, 404}
          /\ StoreTransportFailed(p) => Response(p).status = 500

\* ------------------------------------------------------------------ C28
\* the cookie the callback is to set for the token t
SessionCookie(t) ==
    [name |-> CookieName, value |-> t, domain |-> BaseUrl, path |-> "/",
     secure |-> TRUE, http_only |-> TRUE]

\* C28: /auth/login/callback answers a successful login with 302, Location
\* the base URL, and the configured cookie set to the session token (Path=/,
\* Secure, HttpOnly, Domain the base URL); a failed login sets no cookie and
\* is answered with the status of its error's kind.
C28_CallbackRedirectsWithCookie ==
    \A p \in Procs :
        LoginDone(p) =>
            IF result[p].ok
            THEN /\ Response(p).status = 302
                 /\ Response(p).location = BaseUrl
                 /\ Response(p).set_cookie = {SessionCookie(result[p].token)}
            ELSE /\ Response(p).set_cookie = {}
                 /\ Response(p).status = StatusOf(result[p].kind)

\* ------------------------------------------------------------------ C29
\* the session cookie of the request p served
RequestCookie(p) == ReadCookie(loc[p].jar, CookieName)

\* p served /auth/logout for a request that carried the session cookie
LogoutWithCookie(p) ==
    /\ Responded(p)
    /\ Endpoint(p) = "logout"
    /\ RequestCookie(p).found

\* C29: /auth/logout reads the cookie of the configured name, the one the
\* callback sets, and calls logout with its value; when the store answers
\* DEL the response is 200 whether or not the token had a record, and after
\* a 200 the token has no record.
C29_LogoutWithCookieIs200AndEndsSession ==
    /\ \A p \in Procs :
          LogoutWithCookie(p) =>
              LET t == RequestCookie(p).value
              IN  /\ loc[p].op = "logout"
                  /\ loc[p].arg = t
                  /\ Len(log[p]) = 1
                  /\ log[p][1].step = "del"
                  /\ log[p][1].st = "ok" => Response(p).status = 200
                  /\ Response(p).status = 200 =>
                         /\ log[p][1].st = "ok"
                         /\ ~store[t].present
                         /\ t \in deleted
    /\ \A q \in Procs :
          (LoginDone(q) /\ result[q].ok) =>
              \A c \in Response(q).set_cookie : c.name = LogoutCookie(CookieName)

\* a logout with the cookie of a session that was live: answered 200, and
\* the record is gone
C29_Witness ==
    \E p \in Procs :
        /\ LogoutWithCookie(p)
        /\ RequestCookie(p).value \in issued
        /\ RequestCookie(p).value \notin expired
        /\ Response(p).status = 200
        /\ ~store[RequestCookie(p).value].present

\* ------------------------------------------------------------------ C30
\* p served /auth/me
MeDone(p) == Responded(p) /\ Endpoint(p) = "me"

\* the store answered the GET of p's request with a record that was there
FoundLiveRecord(p) ==
    /\ RequestCookie(p).found
    /\ log[p][1].st = "ok"
    /\ log[p][1].resp.present

\* C30: /auth/me answers 200 exactly when the request carries the session
\* cookie and the store answers the GET for its token with a live record,
\* and the body is then the User decoded from that record, which is what
\* save wrote for the token.  Without the cookie the answer is 403
\* PermissionDenied("no session found") and the store is not asked; for a
\* token that was logged out or has expired it is never 200; every answer
\* other than 200 has the status of the error's kind.
C30_MeIs200IffLiveRecord ==
    \A p \in Procs :
        MeDone(p) =>
            /\ ~RequestCookie(p).found =>
                   /\ Response(p).status = 403
                   /\ Response(p).body.text = "no session found"
                   /\ log[p] = <<>>
            /\ RequestCookie(p).found =>
                   /\ loc[p].op = "session"
                   /\ loc[p].arg = RequestCookie(p).value
                   /\ log[p][1].step = "get"
            /\ Response(p).status = 200 <=> FoundLiveRecord(p)
            /\ Response(p).status = 200 =>
                   /\ log[p][1].resp.data = EncodeUser(SavedUser(loc[p].arg))
                   /\ Response(p).body.user = DecodeUser(log[p][1].resp.data).user
            /\ (RequestCookie(p).found /\ log[p][1].st = "ok" /\ log[p][1].resp.gone) =>
                   Response(p).status # 200
            /\ Response(p).status # 200 =>
                   /\ ~result[p].ok
                   /\ Response(p).status = StatusOf(result[p].kind)

\* /auth/me answered 403 for the cookie of a session that was logged out
C30_Witness ==
    \E p \in Procs :
        /\ MeDone(p)
        /\ RequestCookie(p).found
        /\ RequestCookie(p).value \in issued \cap deleted
        /\ log[p][1].st = "ok"
        /\ Response(p).status = 403

\* ------------------------------------------------------------------ DefaultAdmin over PostgresRepo
\* what a request can carry in a field; the first value of each is the empty
\* string
Titles == {"", "title"}
Descriptions == {"", "description"}
Contents == {"", "content"}
Authors == {"", "author"}
\* and what an update can carry
EditedTitles == {"", "title2"}
EditedDescriptions == {"", "description2"}
EditedContents == {"", "content2"}

DbErrorText == "pool timed out while waiting for an open connection"

\* what a call knows of the request it serves: nothing when the Admin is
\* called directly
NoRequest == [http |-> "", jar |-> {}, arg |-> NoToken, user |-> NoUser]

\* the locals of an Admin call made for the request h
AdminLocals(h, op, id, title, description, content, author, status) ==
    [op |-> op, id |-> id, title |-> title, description |-> description,
     content |-> content, author |-> author, status |-> status, created_at |-> 0,
     http |-> h.http, jar |-> h.jar, arg |-> h.arg, user |-> h.user]

\* Result<Article, Error>
OkArticle(article) == [ok |-> TRUE, kind |-> "", msg |-> "", article |-> article]
\* Result<(), Error>
OkUnit == Ok(NoUser, NoToken)

\* the row of an article
Row(l, created_at) ==
    [row |-> "live", title |-> l.title, description |-> l.description,
     content |-> l.content, author |-> l.author, status |-> l.status,
     created_at |-> created_at]
\* the Article built from a call's locals
Article(l) ==
    [id |-> l.id, title |-> l.title, description |-> l.description,
     content |-> l.content, author |-> l.author, status |-> l.status,
     created_at |-> l.created_at]

\* the ids that rows or running calls have
UsedArticleIds ==
    {a \in ArticleIds : articles[a].row # "none"}
        \cup {loc[q].id : q \in {r \in DOMAIN loc : loc[r].op = "create"}}
\* Uuid::new_v4() for an article: an id nothing has yet
HasFreshArticleId == \E i \in 1..Len(ArticleNames) : ArticleNames[i] \notin UsedArticleIds
FreshArticleId ==
    ArticleNames[CHOOSE i \in 1..Len(ArticleNames) :
                    /\ ArticleNames[i] \notin UsedArticleIds
                    /\ \A j \in 1..(i - 1) : ArticleNames[j] \in UsedArticleIds]
\* Utc::now(): later than the created_at of every row
Now == Cardinality({a \in ArticleIds : articles[a].row # "none"}) + 1

\* a validation that lets an empty author through
CreateInvalidWithoutAuthor(title, description, content, author) ==
    IF Len(title) = 0 THEN "title cannot be empty"
    ELSE IF Len(description) = 0 THEN "description cannot be empty"
    ELSE IF Len(content) = 0 THEN "content cannot be empty"
    ELSE ""

\* the checks of create, in their order: the text of the first that fails
CreateInvalid(title, description, content, author) ==
    IF Len(title) = 0 THEN "title cannot be empty"
    ELSE IF Len(description) = 0 THEN "description cannot be empty"
    ELSE IF Len(content) = 0 THEN "content cannot be empty"
    ELSE IF Len(author) = 0 THEN "author cannot be empty"
    ELSE ""

\* create up to the await of repo.article_create, or to its return when a
\* field is empty
CreateBegin(p, h, l0, title, description, content, author) ==
    LET invalid == CreateInvalid(title, description, content, author)
    IN  IF invalid # ""
        THEN /\ loc' = [loc EXCEPT ![p] =
                            AdminLocals(h, "create", "", title, description, content,
                                        author, "")]
             /\ Finish(p, Err("InvalidInput", invalid))
             /\ log' = [log EXCEPT ![p] = l0]
        ELSE /\ HasFreshArticleId
             /\ loc' = [loc EXCEPT ![p] =
                            [AdminLocals(h, "create", FreshArticleId, title, description,
                                         content, author, "draft")
                                EXCEPT !.created_at = Now]]
             /\ pc' = [pc EXCEPT ![p] = "article_create"]
             /\ result' = [result EXCEPT ![p] = NoResult]
             /\ log' = [log EXCEPT ![p] = Append(l0, Step("article_create"))]

\* DefaultAdmin::create called directly
Create(p) ==
    /\ Free(p)
    /\ \E title \in Titles, description \in Descriptions, content \in Contents,
          author \in Authors :
         CreateBegin(p, NoRequest, <<>>, title, description, content, author)
    /\ UNCHANGED <<articles, org, account, store, minted, issued, deleted, expired>>

\* PostgresRepo::article_create: the INSERT has answered
ArticleCreateReturn(p) ==
    /\ pc[p] = "article_create"
    /\ \/ /\ Finish(p, Err("ConnectionError", "inserting data: " \o DbErrorText))
          /\ log' = [log EXCEPT ![p] = Answered(@, "fail", <<>>)]
          /\ UNCHANGED articles
       \/ /\ articles' = [articles EXCEPT ![loc[p].id] = Row(loc[p], loc[p].created_at)]
          /\ Finish(p, OkArticle(Article(loc[p])))
          /\ log' = [log EXCEPT ![p] = Answered(@, "ok", Article(loc[p]))]
    /\ UNCHANGED <<org, account, store, minted, loc, issued, deleted, expired>>

\* DefaultAdmin::get = repo.articles_get(id), up to its await
GetBegin(p, h, l0, id) ==
    /\ loc' = [loc EXCEPT ![p] = AdminLocals(h, "get", id, "", "", "", "", "")]
    /\ pc' = [pc EXCEPT ![p] = "articles_get"]
    /\ result' = [result EXCEPT ![p] = NoResult]
    /\ log' = [log EXCEPT ![p] = Append(l0, Step("articles_get"))]

\* DefaultAdmin::get called directly
AdminGet(p) ==
    /\ Free(p)
    /\ \E id \in ArticleIds : GetBegin(p, NoRequest, <<>>, id)
    /\ UNCHANGED <<articles, org, account, store, minted, issued, deleted, expired>>

\* PostgresRepo::articles_get(id): what the SELECT gives
ArticlesGet(id) ==
    IF articles[id].row = "live"
    THEN OkArticle([id |-> id, title |-> articles[id].title,
                    description |-> articles[id].description,
                    content |-> articles[id].content, author |-> articles[id].author,
                    status |-> articles[id].status,
                    created_at |-> articles[id].created_at])
    ELSE Err("NotFound", "article " \o id \o " ")
ArticlesGetFailed == Err("ConnectionError", "fetching data: " \o DbErrorText)

\* get: the SELECT has answered
AdminGetReturn(p) ==
    /\ pc[p] = "articles_get"
    /\ loc[p].op = "get"
    /\ \/ /\ Finish(p, ArticlesGetFailed)
          /\ log' = [log EXCEPT ![p] = Answered(@, "fail", <<>>)]
       \/ /\ Finish(p, ArticlesGet(loc[p].id))
          /\ log' = [log EXCEPT ![p] = Answered(@, "ok", ArticlesGet(loc[p].id))]
    /\ UNCHANGED <<articles, org, account, store, minted, loc, issued, deleted, expired>>

\* a validation that lets an empty content through
UpdateInvalidWithoutContent(title, description, content) ==
    IF Len(title) = 0 THEN "title cannot be empty"
    ELSE IF Len(description) = 0 THEN "description cannot be empty"
    ELSE ""

\* the checks of update, in their order: the text of the first that fails
UpdateInvalid(title, description, content) ==
    IF Len(title) = 0 THEN "title cannot be empty"
    ELSE IF Len(description) = 0 THEN "description cannot be empty"
    ELSE IF Len(content) = 0 THEN "content cannot be empty"
    ELSE ""

\* update up to the await of repo.articles_get(id)
UpdateBegin(p, h, l0, id, title, description, content) ==
    /\ loc' = [loc EXCEPT ![p] =
                   AdminLocals(h, "update", id, title, description, content, "", "")]
    /\ pc' = [pc EXCEPT ![p] = "articles_get"]
    /\ result' = [result EXCEPT ![p] = NoResult]
    /\ log' = [log EXCEPT ![p] = Append(l0, Step("articles_get"))]

\* DefaultAdmin::update called directly
Update(p) ==
    /\ Free(p)
    /\ \E id \in ArticleIds, title \in EditedTitles, description \in EditedDescriptions,
          content \in EditedContents :
         UpdateBegin(p, NoRequest, <<>>, id, title, description, content)
    /\ UNCHANGED <<articles, org, account, store, minted, issued, deleted, expired>>

\* update: articles_get has answered; on a row, validate, then send the UPDATE
UpdateGetReturn(p) ==
    /\ pc[p] = "articles_get"
    /\ loc[p].op = "update"
    /\ \/ /\ Finish(p, ArticlesGetFailed)
          /\ log' = [log EXCEPT ![p] = Answered(@, "fail", <<>>)]
       \/ LET got == ArticlesGet(loc[p].id)
              invalid == UpdateInvalid(loc[p].title, loc[p].description, loc[p].content)
          IN  IF ~got.ok
              THEN /\ Finish(p, got)
                   /\ log' = [log EXCEPT ![p] = Answered(@, "ok", got)]
              ELSE IF invalid # ""
              THEN /\ Finish(p, Err("InvalidInput", invalid))
                   /\ log' = [log EXCEPT ![p] = Answered(@, "ok", got)]
              ELSE /\ pc' = [pc EXCEPT ![p] = "article_update"]
                   /\ log' = [log EXCEPT ![p] =
                                  Append(Answered(@, "ok", got), Step("article_update"))]
                   /\ UNCHANGED result
    /\ UNCHANGED <<articles, org, account, store, minted, loc, issued, deleted, expired>>

\* PostgresRepo::article_update: the UPDATE ... WHERE id has answered; it
\* changes the row when there is one
ArticleUpdateReturn(p) ==
    /\ pc[p] = "article_update"
    /\ \/ /\ Finish(p, Err("ConnectionError", "updating data: " \o DbErrorText))
          /\ log' = [log EXCEPT ![p] = Answered(@, "fail", <<>>)]
          /\ UNCHANGED articles
       \/ /\ articles' = [articles EXCEPT ![loc[p].id] =
                              IF @.row = "live"
                              THEN [@ EXCEPT !.title = loc[p].title,
                                             !.description = loc[p].description,
                                             !.content = loc[p].content]
                              ELSE @]
          /\ Finish(p, OkUnit)
          /\ log' = [log EXCEPT ![p] =
                         Answered(@, "ok", [rows |-> IF articles[loc[p].id].row = "live"
                                                     THEN 1 ELSE 0])]
    /\ UNCHANGED <<org, account, store, minted, loc, issued, deleted, expired>>

\* a publish that writes the status of a draft
StatusOfCallPublishAsDraft(op) ==
    CASE op = "publish" -> "draft"
      [] op = "move_to_draft" -> "draft"
      [] op = "move_to_trash" -> "trash"
      [] op = "delete" -> ""

\* Status::to_string of the status each call asks for
StatusOfCall(op) ==
    CASE op = "publish" -> "published"
      [] op = "move_to_draft" -> "draft"
      [] op = "move_to_trash" -> "trash"
      [] op = "delete" -> ""

\* publish, move_to_draft, move_to_trash and delete, up to the await of
\* repo.articles_exists(id)
StatusBegin(p, h, l0, op, id) ==
    /\ loc' = [loc EXCEPT ![p] = AdminLocals(h, op, id, "", "", "", "", StatusOfCall(op))]
    /\ pc' = [pc EXCEPT ![p] = "articles_exists"]
    /\ result' = [result EXCEPT ![p] = NoResult]
    /\ log' = [log EXCEPT ![p] = Append(l0, Step("articles_exists"))]

\* the four called directly
StatusCall(p) ==
    /\ Free(p)
    /\ \E id \in ArticleIds, op \in {"publish", "move_to_draft", "move_to_trash", "delete"} :
         StatusBegin(p, NoRequest, <<>>, op, id)
    /\ UNCHANGED <<articles, org, account, store, minted, issued, deleted, expired>>

\* PostgresRepo::articles_exists has answered; when the row is there, send
\* the UPDATE of the status or the DELETE
ExistsReturn(p) ==
    /\ pc[p] = "articles_exists"
    /\ \/ /\ Finish(p, Err("ConnectionError", "checking existence: " \o DbErrorText))
          /\ log' = [log EXCEPT ![p] = Answered(@, "fail", <<>>)]
       \/ /\ articles[loc[p].id].row # "live"
          /\ Finish(p, Err("NotFound", "article " \o loc[p].id \o " not found"))
          /\ log' = [log EXCEPT ![p] = Answered(@, "ok", [exists |-> FALSE])]
       \/ /\ articles[loc[p].id].row = "live"
          /\ pc' = [pc EXCEPT ![p] = IF loc[p].op = "delete" THEN "article_delete"
                                      ELSE "article_set_status"]
          /\ log' = [log EXCEPT ![p] =
                         Append(Answered(@, "ok", [exists |-> TRUE]),
                                Step(IF loc[p].op = "delete" THEN "article_delete"
                                     ELSE "article_set_status"))]
          /\ UNCHANGED result
    /\ UNCHANGED <<articles, org, account, store, minted, loc, issued, deleted, expired>>

\* the rows an UPDATE or DELETE ... WHERE id = $n finds
RowsMatched(id) == IF articles[id].row = "live" THEN 1 ELSE 0

\* what a write returns once the statement ran on `rows` rows:
\* the row count is not looked at
WriteResult(rows, id) == OkUnit

\* PostgresRepo::article_set_status: the UPDATE ... WHERE id has answered
SetStatusReturn(p) ==
    /\ pc[p] = "article_set_status"
    /\ \/ /\ Finish(p, Err("ConnectionError", "updating data: " \o DbErrorText))
          /\ log' = [log EXCEPT ![p] = Answered(@, "fail", <<>>)]
          /\ UNCHANGED articles
       \/ /\ articles' = [articles EXCEPT ![loc[p].id] =
                              IF @.row = "live" THEN [@ EXCEPT !.status = loc[p].status]
                              ELSE @]
          /\ Finish(p, WriteResult(RowsMatched(loc[p].id), loc[p].id))
          /\ log' = [log EXCEPT ![p] =
                         Answered(@, "ok", [rows |-> RowsMatched(loc[p].id),
                                            before |-> articles[loc[p].id],
                                            after |-> articles'[loc[p].id]])]
    /\ UNCHANGED <<org, account, store, minted, loc, issued, deleted, expired>>

\* PostgresRepo::article_delete: the DELETE ... WHERE id has answered
ArticleDeleteReturn(p) ==
    /\ pc[p] = "article_delete"
    /\ \/ /\ Finish(p, Err("ConnectionError", "deleting data: " \o DbErrorText))
          /\ log' = [log EXCEPT ![p] = Answered(@, "fail", <<>>)]
          /\ UNCHANGED articles
       \/ /\ articles' = [articles EXCEPT ![loc[p].id] =
                              IF @.row = "live" THEN [NoArticle EXCEPT !.row = "removed"]
                              ELSE @]
          /\ Finish(p, WriteResult(RowsMatched(loc[p].id), loc[p].id))
          /\ log' = [log EXCEPT ![p] =
                         Answered(@, "ok", [rows |-> RowsMatched(loc[p].id),
                                            before |-> articles[loc[p].id],
                                            after |-> articles'[loc[p].id]])]
    /\ UNCHANGED <<org, account, store, minted, loc, issued, deleted, expired>>

\* the tables a call may find: nothing yet, or one article created earlier
\* and left in any of the three statuses
SeededArticle(status) ==
    [row |-> "live", title |-> "title", description |-> "description",
     content |-> "content", author |-> "author", status |-> status, created_at |-> 1]
AdminTables ==
    {NoArticles}
        \cup {[NoArticles EXCEPT ![ArticleNames[1]] = SeededArticle(s)] :
                 s \in {"draft", "published", "trash"}}

\* the service before any request: the handlers `procs` over a table of
\* `tables`
InitTables(procs, tables) ==
    /\ org \in ConfiguredOrgs
    /\ account \in [procs -> GithubUsers]
    \* one client, whichever handler serves it
    /\ \A p, q \in procs : account[p] = account[q]
    /\ store = [t \in Tokens |-> NoRecord]
    /\ minted = <<>>
    /\ pc = [p \in procs |-> "idle"]
    /\ loc = [p \in procs |-> NoLocals]
    /\ result = [p \in procs |-> NoResult]
    /\ log = [p \in procs |-> <<>>]
    /\ issued = {}
    /\ deleted = {}
    /\ expired = {}
    /\ articles \in tables

InitAdmin == InitTables(Procs, AdminTables)

CreateNext == \E p \in Procs : Create(p) \/ ArticleCreateReturn(p)
CreateSpec == InitAdmin /\ [][CreateNext]_vars

UpdateNext ==
    \E p \in Procs : Update(p) \/ UpdateGetReturn(p) \/ ArticleUpdateReturn(p)
UpdateSpec == InitAdmin /\ [][UpdateNext]_vars

StatusNext ==
    \E p \in Procs :
        \/ StatusCall(p) \/ ExistsReturn(p)
        \/ SetStatusReturn(p) \/ ArticleDeleteReturn(p)
StatusSpec == InitAdmin /\ [][StatusNext]_vars

\* ------------------------------------------------------------------ claims on DefaultAdmin
CreateCalled(p) == loc[p].op = "create" /\ pc[p] # "idle"
\* the repository calls a call has made so far
RepoCalls(p, name) == Cardinality({i \in 1..Len(log[p]) : log[p][i].step = name})

\* C31: create fails with InvalidInput naming the first empty field, in the
\* order title, description, content, author, without calling the
\* repository; with the four fields non-empty it calls article_create
\* exactly once, with an article of status Draft whose id no row and no
\* other call has.
C31_CreateValidatesThenInsertsDraft ==
    \A p \in Procs :
        CreateCalled(p) =>
            LET l == loc[p]
                refused(text) ==
                    /\ result[p] = Err("InvalidInput", text)
                    /\ log[p] = <<>>
            IN  /\ l.title = "" => refused("title cannot be empty")
                /\ (l.title # "" /\ l.description = "") =>
                       refused("description cannot be empty")
                /\ (l.title # "" /\ l.description # "" /\ l.content = "") =>
                       refused("content cannot be empty")
                /\ (l.title # "" /\ l.description # "" /\ l.content # "" /\ l.author = "") =>
                       refused("author cannot be empty")
                /\ (l.title # "" /\ l.description # "" /\ l.content # "" /\ l.author # "") =>
                       /\ Len(log[p]) = 1
                       /\ RepoCalls(p, "article_create") = 1
                       /\ l.status = "draft"
                       /\ l.id \in ArticleIds
                       /\ pc[p] = "article_create" => articles[l.id].row = "none"
                       /\ \A q \in Procs \ {p} :
                              (CreateCalled(q) /\ log[q] # <<>>) => loc[q].id # l.id
                       /\ (pc[p] = "done" /\ result[p].ok) =>
                              /\ result[p].article.status = "draft"
                              /\ result[p].article.id = l.id
                              /\ articles[l.id].row = "live"
                              /\ articles[l.id].status = "draft"

\* a create with four non-empty fields has inserted its draft beside the
\* article that was already there
C31_Witness ==
    \E p \in Procs :
        /\ CreateCalled(p)
        /\ pc[p] = "done"
        /\ result[p].ok
        /\ articles[loc[p].id].row = "live"
        /\ articles[ArticleNames[1]].row = "live"
        /\ loc[p].id # ArticleNames[1]

\* ------------------------------------------------------------------ DefaultAdmin::list
\* DefaultAdmin::new(admin_repo, 10)
ListPageSize == 10
\* ArticlesListOptions: All, or Filtered by a status
ListOptions == {"all", "published", "draft", "trash"}
\* ---- i64, as the machine holds it: 64 bits in two's complement, here four
\* limbs of 16 bits, the lowest first
LimbBase == 65536
\* the i64 of a number that fits 32 bits
ToI64(n) ==
    <<n % LimbBase, (n \div LimbBase) % LimbBase,
      IF n < 0 THEN LimbBase - 1 ELSE 0, IF n < 0 THEN LimbBase - 1 ELSE 0>>
\* whether an i64 fits 32 bits, and the number it is then
IsSmall(x) ==
    \/ x[3] = 0 /\ x[4] = 0 /\ x[2] < LimbBase \div 2
    \/ x[3] = LimbBase - 1 /\ x[4] = LimbBase - 1 /\ x[2] >= LimbBase \div 2
FromI64(x) ==
    IF x[4] = 0 THEN x[2] * LimbBase + x[1] ELSE (x[2] - LimbBase) * LimbBase + x[1]
\* i64::MAX
I64Max == <<LimbBase - 1, LimbBase - 1, LimbBase - 1, LimbBase \div 2 - 1>>
IsNegative(x) == x[4] >= LimbBase \div 2
\* x <= 0
LeqZero(x) == IsNegative(x) \/ x = ToI64(0)

\* x + y in 64 bits, the carry out of the top dropped
RECURSIVE AddFrom(_, _, _, _)
AddFrom(x, y, i, carry) ==
    IF i > 4 THEN <<>>
    ELSE LET s == x[i] + y[i] + carry
         IN  <<s % LimbBase>> \o AddFrom(x, y, i + 1, s \div LimbBase)
WrappingAdd(x, y) == AddFrom(x, y, 1, 0)

\* the bits of x times a small k >= 0: four limbs and the carry out of them
RECURSIVE MulFrom(_, _, _, _)
MulFrom(x, k, i, carry) ==
    IF i > 4 THEN <<carry>>
    ELSE LET s == x[i] * k + carry
         IN  <<s % LimbBase>> \o MulFrom(x, k, i + 1, s \div LimbBase)
\* x * k in 64 bits
WrappingMul(x, k) == SubSeq(MulFrom(x, k, 1, 0), 1, 4)
\* whether x * k leaves i64, for x >= 0 and k >= 0
MulOverflows(x, k) == MulFrom(x, k, 1, 0)[5] > 0 \/ IsNegative(WrappingMul(x, k))

\* the last page whose offset fits i64 with ten to a page
LastPageInRange == <<52429, 52428, 52428, 3276>>
\* the page numbers a request may ask for: any i64 (http.rs: page: Option<i64>)
PageNumbers == {ToI64(n) : n \in -1..2} \cup {LastPageInRange, I64Max}

\* let page = if page <= 0 { 1 } else { page }
EffectivePage(page) == IF LeqZero(page) THEN ToI64(1) ELSE page
\* page - 1, of a page >= 1
PageBefore(page) == WrappingAdd(EffectivePage(page), ToI64(-1))
\* whether (page - 1) * self.list_page_size overflows: a panic where the
\* build checks overflow, a wrapped product where it does not
OffsetOverflows(page) == MulOverflows(PageBefore(page), ListPageSize)
\* let offset = (page - 1) * self.list_page_size
Offset(page) == WrappingMul(PageBefore(page), ListPageSize)

\* (count as f64 / list_page_size as f64).ceil() as i64, for a count of
\* rows (0 or more; exact in f64 below 2^53)
Pages(count) == (count + ListPageSize - 1) \div ListPageSize

\* Listing { items, pages }
OkListing(items, pages) ==
    [ok |-> TRUE, kind |-> "", msg |-> "", items |-> items, pages |-> pages]

\* list up to the await of repo.articles_list(opts, list_page_size, offset),
\* or up to the panic of the multiplication
ListBegin(p, h, l0, opts, page) ==
    /\ loc' = [loc EXCEPT ![p] =
                   [op |-> "list", opts |-> opts, page |-> page,
                    http |-> h.http, jar |-> h.jar, arg |-> h.arg, user |-> h.user]]
    /\ result' = [result EXCEPT ![p] = NoResult]
    /\ \/ /\ OffsetOverflows(page)
          /\ log' = [log EXCEPT ![p] = l0]
          /\ pc' = [pc EXCEPT ![p] = "panicked"]
       \/ /\ log' = [log EXCEPT ![p] =
                         Append(l0, [step |-> "articles_list", st |-> "pending", resp |-> <<>>,
                                     opts |-> opts, limit |-> ListPageSize,
                                     offset |-> Offset(page)])]
          /\ pc' = [pc EXCEPT ![p] = "articles_list"]

\* DefaultAdmin::list called directly
List(p) ==
    /\ Free(p)
    /\ \E opts \in ListOptions, page \in PageNumbers : ListBegin(p, NoRequest, <<>>, opts, page)
    /\ UNCHANGED <<articles, org, account, store, minted, issued, deleted, expired>>

\* what a Repo may answer to articles_list: some items and some count
RepoItems == {<<>>, <<ArticleNames[2], ArticleNames[1]>>}
RepoCounts ==
    {0, 1, 2, ListPageSize - 1, ListPageSize, ListPageSize + 1,
     2 * ListPageSize, 2 * ListPageSize + 1}

\* list after the await, against any Repo: the error as it is, or the
\* items with the page total of the count
RepoListReturn(p) ==
    /\ pc[p] = "articles_list"
    /\ \/ /\ Finish(p, Err("ConnectionError", "fetching data: " \o DbErrorText))
          /\ log' = [log EXCEPT ![p] = [@ EXCEPT ![1].st = "fail"]]
       \/ \E items \in RepoItems, count \in RepoCounts :
            /\ Finish(p, OkListing(items, Pages(count)))
            /\ log' = [log EXCEPT ![p] =
                          [@ EXCEPT ![1].st = "ok",
                                    ![1].resp = [items |-> items, count |-> count]]]
    /\ UNCHANGED <<articles, org, account, store, minted, loc, issued, deleted, expired>>

ListNext == \E p \in Procs : List(p) \/ RepoListReturn(p)
ListSpec == Init /\ [][ListNext]_vars

ListCalled(p) == loc[p].op = "list" /\ pc[p] # "idle"

\* C32: list treats every page <= 0 as page 1, asks the repository for
\* limit = page size and offset = (page - 1) * page size, and reports as
\* pages the least number of pages of that size that hold the count the
\* repository returned: 0 for a count of 0, 1 for a count of 2.
C32_ListPagesAndOffset ==
    \A p \in Procs :
        ListCalled(p) =>
            /\ pc[p] # "panicked"
            /\ LET call == log[p][1]
                   page == loc[p].page
               IN  /\ call.step = "articles_list"
                   /\ call.limit = ListPageSize
                   /\ LeqZero(page) => call.offset = ToI64(0)
                   /\ ~LeqZero(page) =>
                          /\ ~IsNegative(call.offset)
                          /\ call.offset \o <<0>> =
                                 MulFrom(WrappingAdd(page, ToI64(-1)), ListPageSize, 1, 0)
                   /\ call.opts = loc[p].opts
                   /\ (pc[p] = "done" /\ call.st = "ok") =>
                          /\ result[p].ok
                          /\ result[p].items = call.resp.items
                          /\ result[p].pages * ListPageSize >= call.resp.count
                          /\ (result[p].pages - 1) * ListPageSize < call.resp.count
                          /\ call.resp.count = 0 => result[p].pages = 0
                          /\ call.resp.count = 2 => result[p].pages = 1
                   /\ (pc[p] = "done" /\ call.st = "fail") => ~result[p].ok

UpdateCalled(p) == loc[p].op = "update" /\ pc[p] # "idle"
\* what articles_get answered to an update, once it has
LookedUp(p) == log[p][1].st = "ok"
Found(p) == LookedUp(p) /\ log[p][1].resp.ok
AnyFieldEmpty(p) == loc[p].title = "" \/ loc[p].description = "" \/ loc[p].content = ""

\* C33: update looks the article up before it validates: for a missing
\* article it returns the repository's NotFound even when a field is empty;
\* for an existing article with an empty title, description or content it
\* returns InvalidInput and never calls article_update; otherwise it calls
\* article_update once, with the given id and fields.
C33_UpdateLooksUpThenValidates ==
    \A p \in Procs :
        UpdateCalled(p) =>
            /\ log[p][1].step = "articles_get"
            /\ (LookedUp(p) /\ ~Found(p)) =>
                   /\ result[p] = log[p][1].resp
                   /\ result[p].kind = "NotFound"
                   /\ RepoCalls(p, "article_update") = 0
            /\ (Found(p) /\ AnyFieldEmpty(p)) =>
                   /\ result[p].kind = "InvalidInput"
                   /\ pc[p] = "done"
                   /\ RepoCalls(p, "article_update") = 0
            /\ (Found(p) /\ ~AnyFieldEmpty(p)) =>
                   /\ RepoCalls(p, "article_update") = 1
                   /\ Len(log[p]) = 2
                   /\ (pc[p] = "done" /\ log[p][2].st = "ok" /\ log[p][2].resp.rows = 1) =>
                          /\ result[p] = OkUnit
                          /\ articles[loc[p].id].title = loc[p].title
                          /\ articles[loc[p].id].description = loc[p].description
                          /\ articles[loc[p].id].content = loc[p].content
            /\ ~LookedUp(p) => RepoCalls(p, "article_update") = 0

\* an update with an empty field of an article that does not exist was
\* answered NotFound
C33_Witness ==
    \E p \in Procs :
        /\ UpdateCalled(p)
        /\ pc[p] = "done"
        /\ AnyFieldEmpty(p)
        /\ LookedUp(p)
        /\ result[p].kind = "NotFound"

StatusCalled(p) ==
    loc[p].op \in {"publish", "move_to_draft", "move_to_trash", "delete"} /\ pc[p] # "idle"
\* the writes a call has sent
Writes(p) == RepoCalls(p, "article_set_status") + RepoCalls(p, "article_delete")
ExistsAnswered(p) == log[p][1].st = "ok"
Existed(p) == ExistsAnswered(p) /\ log[p][1].resp.exists

\* C34: publish, move_to_draft, move_to_trash and delete of an id that has
\* no article fail with NotFound and send no status write and no delete; on
\* an existing id they send one write: the status becomes published, draft
\* or trash, whatever it was, or the article is removed.
C34_StatusCallsCheckExistenceThenWriteOnce ==
    \A p \in Procs :
        StatusCalled(p) =>
            /\ log[p][1].step = "articles_exists"
            /\ (ExistsAnswered(p) /\ ~Existed(p)) =>
                   /\ result[p].kind = "NotFound"
                   /\ pc[p] = "done"
                   /\ Writes(p) = 0
            /\ ~ExistsAnswered(p) => Writes(p) = 0
            /\ Existed(p) =>
                   /\ Writes(p) = 1
                   /\ Len(log[p]) = 2
                   /\ log[p][2].step =
                          (IF loc[p].op = "delete" THEN "article_delete"
                           ELSE "article_set_status")
                   /\ (pc[p] = "done" /\ log[p][2].st = "ok" /\ log[p][2].resp.rows = 1) =>
                          /\ result[p] = OkUnit
                          /\ loc[p].op = "publish" =>
                                 log[p][2].resp.after.status = "published"
                          /\ loc[p].op = "move_to_draft" =>
                                 log[p][2].resp.after.status = "draft"
                          /\ loc[p].op = "move_to_trash" =>
                                 log[p][2].resp.after.status = "trash"
                          /\ loc[p].op = "delete" =>
                                 log[p][2].resp.after.row = "removed"
                          /\ loc[p].op # "delete" =>
                                 log[p][2].resp.after =
                                     [log[p][2].resp.before EXCEPT
                                         !.status = log[p][2].resp.after.status]

\* an article that was in the trash has been published
C34_Witness ==
    \E p \in Procs :
        /\ StatusCalled(p)
        /\ loc[p].op = "publish"
        /\ pc[p] = "done"
        /\ result[p] = OkUnit
        /\ log[p][2].resp.rows = 1
        /\ log[p][2].resp.before.status = "trash"
        /\ articles[loc[p].id].status = "published"

\* ------------------------------------------------------------------ PostgresRepo::articles_list
\* sqlx::Error::RowNotFound, as fetch_one reports a result without rows
RowNotFoundText ==
    "no rows returned by a query that expected to return at least one row"

\* the tables a listing may find: up to two articles, the second newer
ListTables ==
    {[NoArticles EXCEPT ![ArticleNames[1]] = r1, ![ArticleNames[2]] = r2] :
        r1 \in {NoArticle, SeededArticle("draft")},
        r2 \in {NoArticle, [SeededArticle("draft") EXCEPT !.created_at = 2],
                [SeededArticle("published") EXCEPT !.created_at = 2]}}

\* FROM blog.articles [WHERE status = $1]
Matching(opts) ==
    {a \in ArticleIds :
        articles[a].row = "live" /\ (opts = "all" \/ articles[a].status = opts)}

\* ORDER BY created_at DESC
RECURSIVE NewestFirst(_)
NewestFirst(S) ==
    IF S = {} THEN <<>>
    ELSE LET a == CHOOSE x \in S :
                      \A y \in S : articles[x].created_at >= articles[y].created_at
         IN  <<a>> \o NewestFirst(S \ {a})

\* LIMIT $n OFFSET $m over the rows of a result
LimitOffset(rows, limit, offset) ==
    SubSeq(rows, offset + 1, IF offset + limit < Len(rows) THEN offset + limit ELSE Len(rows))

\* the result of the query for the items
ItemRows(opts, limit, offset) == LimitOffset(NewestFirst(Matching(opts)), limit, offset)

\* the result of the count statement: SELECT COUNT(*) yields one row, and
\* LIMIT and OFFSET apply to that row
CountRows(opts, limit, offset) ==
    LimitOffset(<<Cardinality(Matching(opts))>>, limit, offset)

\* articles_list has answered, and list goes on from its result.  The
\* statements can fail in transport; a server whose scanner refuses the
\* parameter followed at once by ORDER ("$1ORDER BY") fails the first too
ArticlesListReturn(p) ==
    /\ pc[p] = "articles_list"
    /\ LET n == Len(log[p])
           call == log[p][n]
           items == ItemRows(call.opts, call.limit, FromI64(call.offset))
           count == CountRows(call.opts, call.limit, FromI64(call.offset))
       IN  \/ /\ Finish(p, Err("ConnectionError", "fetching data: " \o DbErrorText))
              /\ log' = [log EXCEPT ![p] = [@ EXCEPT ![n].st = "fail"]]
           \/ /\ Finish(p, Err("ConnectionError", "fetching count: " \o DbErrorText))
              /\ log' = [log EXCEPT ![p] = [@ EXCEPT ![n].st = "fail"]]
           \/ /\ Finish(p, IF count = <<>>
                           THEN Err("ConnectionError", "fetching count: " \o RowNotFoundText)
                           ELSE OkListing(items, Pages(count[1])))
              /\ log' = [log EXCEPT ![p] =
                            [@ EXCEPT ![n].st = "ok",
                                      ![n].resp = [items |-> items, count |-> count]]]
    /\ UNCHANGED <<articles, org, account, store, minted, loc, issued, deleted, expired>>

\* the pages of a table of two articles
PostgresListNext ==
    \E p \in Procs : (List(p) /\ IsSmall(loc'[p].page)) \/ ArticlesListReturn(p)
PostgresListSpec == InitTables(Procs, ListTables) /\ [][PostgresListNext]_vars

\* C38: for every page >= 1, every status filter and every table content,
\* once the database has answered the statements, articles_list returns Ok
\* with the items of that page, newest first, and with the number of all
\* articles matching the filter, so list succeeds and reports
\* pages = ceil(total / page size) on every page.
C38_ListSucceedsOnEveryPage ==
    \A p \in Procs :
        (ListCalled(p) /\ pc[p] = "done" /\ log[p][1].st = "ok") =>
            LET matching == NewestFirst(Matching(loc[p].opts))
                first == (FromI64(EffectivePage(loc[p].page)) - 1) * ListPageSize
            IN  /\ result[p].ok
                /\ result[p].items =
                       [i \in 1..Len(result[p].items) |-> matching[first + i]]
                /\ \A i \in 1..Len(matching) :
                       (first < i /\ i <= first + ListPageSize) =>
                           \E j \in 1..Len(result[p].items) : result[p].items[j] = matching[i]
                /\ result[p].pages * ListPageSize >= Len(matching)
                /\ (result[p].pages - 1) * ListPageSize < Len(matching)

\* ------------------------------------------------------------------ status calls racing a delete
\* one article, and one handler more than elsewhere, all working on it
RaceTables == {[NoArticles EXCEPT ![ArticleNames[1]] = SeededArticle("draft")]}

RaceNext ==
    \E p \in ConcProcs :
        \/ (StatusCall(p) /\ loc'[p].id = ArticleNames[1])
        \/ ExistsReturn(p)
        \/ SetStatusReturn(p)
        \/ ArticleDeleteReturn(p)
RaceSpec == InitTables(ConcProcs, RaceTables) /\ [][RaceNext]_vars

\* C37: under every interleaving with a concurrent delete(id), whenever
\* publish(id), move_to_draft(id) or move_to_trash(id) returns Ok the
\* article existed when the status was written and then carried the
\* requested status; a call whose article was removed between the existence
\* check and the write fails with NotFound.
C37_StatusWriteOkOnlyOnExistingArticle ==
    \A p \in ConcProcs :
        (StatusCalled(p) /\ loc[p].op # "delete" /\ pc[p] = "done" /\ Len(log[p]) = 2
           /\ log[p][2].st = "ok") =>
            /\ result[p] = OkUnit =>
                   /\ log[p][2].resp.rows = 1
                   /\ log[p][2].resp.after.row = "live"
                   /\ log[p][2].resp.after.status = loc[p].status
            /\ log[p][2].resp.rows = 0 => result[p].kind = "NotFound"

\* ------------------------------------------------------------------ the admin HTTP adapter
\* the handlers of src/src/blog/http.rs
AdminEndpoints ==
    {"create_article", "list_articles", "get_article", "update_article",
     "publish_article", "move_article_to_trash", "move_article_to_draft",
     "delete_article"}

\* what a request carries besides its cookies: the article id of its path
\* and, for create and update, the ArticleRequest of its body
RequestIds == {ArticleNames[1]}
NoArticleRequest == [title |-> "", description |-> "", content |-> ""]
ArticleRequests(endpoint) ==
    IF endpoint \in {"create_article", "update_article"}
    THEN {[title |-> "title2", description |-> "description2", content |-> "content2"]}
    ELSE {NoArticleRequest}

\* a handler once load_user has returned r: the error's response, or the
\* Admin operation of the endpoint up to its first await
ArticleAfterLoadUser(p, l, l0, r) ==
    IF ~r.ok
    THEN /\ loc' = [loc EXCEPT ![p] = l]
         /\ Finish(p, r)
         /\ log' = [log EXCEPT ![p] = l0]
    ELSE LET h == [http |-> l.http, jar |-> l.jar, arg |-> l.arg, user |-> r.user]
         IN  CASE l.http = "create_article" ->
                    CreateBegin(p, h, l0, l.title, l.description, l.content, r.user.login)
               [] l.http = "list_articles" -> ListBegin(p, h, l0, "all", ToI64(0))
               [] l.http = "get_article" -> GetBegin(p, h, l0, l.id)
               [] l.http = "update_article" ->
                    UpdateBegin(p, h, l0, l.id, l.title, l.description, l.content)
               [] l.http = "publish_article" -> StatusBegin(p, h, l0, "publish", l.id)
               [] l.http = "move_article_to_trash" ->
                    StatusBegin(p, h, l0, "move_to_trash", l.id)
               [] l.http = "move_article_to_draft" ->
                    StatusBegin(p, h, l0, "move_to_draft", l.id)
               [] l.http = "delete_article" -> StatusBegin(p, h, l0, "delete", l.id)

\* a request to an article endpoint, up to the first await of
\* sessions.session(cookie value) in load_user, or past load_user when the
\* request has no session cookie
ArticleRequest(p) ==
    /\ Free(p)
    /\ \E endpoint \in AdminEndpoints, jar \in Jars, id \in RequestIds :
         \E body \in ArticleRequests(endpoint) :
           LET c == ReadCookie(jar, CookieName)
               h == [http |-> endpoint, jar |-> jar, arg |-> c.value, user |-> NoUser]
               l == AdminLocals(h, IF c.found THEN "session" ELSE "", id, body.title,
                                body.description, body.content, "", "")
           IN  IF c.found
               THEN /\ loc' = [loc EXCEPT ![p] = l]
                    /\ pc' = [pc EXCEPT ![p] = "get_pool"]
                    /\ result' = [result EXCEPT ![p] = NoResult]
                    /\ log' = [log EXCEPT ![p] = <<Step("get")>>]
               ELSE ArticleAfterLoadUser(p, l, <<>>, LoadUserNoCookie)
    /\ UNCHANGED <<articles, org, account, store, minted, issued, deleted, expired>>

\* the GET of load_user has answered a request to an article endpoint
ArticleSessionReturn(p) ==
    /\ pc[p] = "get_cmd"
    /\ loc[p].http \in AdminEndpoints
    /\ \E failed \in BOOLEAN :
         ArticleAfterLoadUser(p, loc[p],
             Answered(log[p], IF failed THEN "fail" ELSE "ok",
                      [gone |-> loc[p].arg \in deleted \cup expired,
                       present |-> store[loc[p].arg].present,
                       data |-> store[loc[p].arg].data]),
             GetReply(failed, store[loc[p].arg]))
    /\ UNCHANGED <<articles, org, account, store, minted, issued, deleted, expired>>

\* one article in the table, and one session that was issued: still live,
\* logged out, or expired
InitAdminHttp ==
    /\ org \in ConfiguredOrgs
    \* one client, whichever handler serves it
    /\ \E u \in GithubUsers : u.id = 7 /\ account = [p \in Procs |-> u]
    /\ minted = <<ToUser(account[1])>>
    /\ issued = {UuidNames[1]}
    /\ \E fate \in {"live", "logged out", "expired"} :
         /\ store = [t \in Tokens |->
                        IF t = UuidNames[1] /\ fate = "live"
                        THEN [present |-> TRUE, data |-> EncodeUser(ToUser(account[1])),
                              ttl |-> TRUE]
                        ELSE NoRecord]
         /\ deleted = IF fate = "logged out" THEN {UuidNames[1]} ELSE {}
         /\ expired = IF fate = "expired" THEN {UuidNames[1]} ELSE {}
    /\ pc = [p \in Procs |-> "idle"]
    /\ loc = [p \in Procs |-> NoLocals]
    /\ result = [p \in Procs |-> NoResult]
    /\ log = [p \in Procs |-> <<>>]
    /\ articles \in RaceTables

AdminHttpNext ==
    \/ \E p \in Procs :
         \/ ArticleRequest(p) \/ GetPool(p) \/ ArticleSessionReturn(p)
         \/ ArticleCreateReturn(p) \/ ArticlesListReturn(p) \/ AdminGetReturn(p)
         \/ UpdateGetReturn(p) \/ ArticleUpdateReturn(p)
         \/ ExistsReturn(p) \/ SetStatusReturn(p) \/ ArticleDeleteReturn(p)
AdminHttpSpec == InitAdminHttp /\ [][AdminHttpNext]_vars

\* p serves, or has served, a request to an article endpoint
ArticleServing(p) == pc[p] # "idle" /\ loc[p].http \in AdminEndpoints
AdminOps ==
    {"create", "list", "get", "update", "publish", "move_to_draft", "move_to_trash",
     "delete"}
AdminSteps ==
    {"article_create", "articles_list", "articles_get", "article_update",
     "articles_exists", "article_set_status", "article_delete"}
\* the handler of p's request has called an operation of the Admin
AdminInvoked(p) == loc[p].op \in AdminOps
\* session(token) returned a User for p's request: the store answered the
\* GET for the cookie's token with a record that was there
SessionReturnedUser(p) ==
    /\ RequestCookie(p).found
    /\ Len(log[p]) >= 1
    /\ log[p][1].step = "get"
    /\ log[p][1].st = "ok"
    /\ log[p][1].resp.present
    /\ ~log[p][1].resp.gone
    /\ loc[p].arg = RequestCookie(p).value

\* C35: every article endpoint resolves the session from the configured
\* cookie first and calls an Admin operation only when session(token)
\* returned a User: a request without the cookie, or with a token that was
\* logged out or has expired, makes no repository call, and the table
\* changes only in a step of a request with a session.
C35_ArticleEndpointsNeedASession ==
    /\ \A p \in Procs :
          ArticleServing(p) =>
              /\ AdminInvoked(p) => SessionReturnedUser(p)
              /\ \A i \in 1..Len(log[p]) :
                     log[p][i].step \in AdminSteps => (i >= 2 /\ SessionReturnedUser(p))
              /\ ~RequestCookie(p).found =>
                     /\ log[p] = <<>>
                     /\ result[p] = Err("PermissionDenied", "no session found")
              /\ (RequestCookie(p).found
                    /\ RequestCookie(p).value \in deleted \cup expired) =>
                     /\ ~AdminInvoked(p)
                     /\ Len(log[p]) = 1
                     /\ pc[p] = "done" => ~result[p].ok
    /\ [][articles' # articles =>
            \E p \in Procs : ArticleServing(p) /\ AdminInvoked(p)
                                /\ SessionReturnedUser(p) /\ pc'[p] = "done"]_vars

\* a create request with the cookie of a live session has inserted an
\* article whose author is the login of the session's user
C35_Witness ==
    \E p \in Procs :
        /\ ArticleServing(p)
        /\ loc[p].http = "create_article"
        /\ pc[p] = "done"
        /\ result[p].ok
        /\ SessionReturnedUser(p)
        /\ articles[loc[p].id].row = "live"
        /\ articles[loc[p].id].author = SavedUser(loc[p].arg).login

\* ------------------------------------------------------------------ the connection pool
\* the connections of the pool, and one handler more than it has
PoolSize == NumProcs

\* a login that takes its connection before it calls the provider
ConnectionsHeldFromLoginStart(at) ==
    IF at \in {"exchange", "profile", "orgs", "save_pool",
               "save_set", "save_expire", "get_cmd", "del_cmd"} THEN 1 ELSE 0

\* the pooled connections a call holds at each of its awaits: `con` is a
\* local of save, get and delete, taken by pool.get() and dropped at every
\* return
ConnectionsHeld(at) ==
    IF at \in {"save_set", "save_expire", "get_cmd", "del_cmd"} THEN 1 ELSE 0

RECURSIVE SumHeld(_)
SumHeld(ps) ==
    IF ps = {} THEN 0
    ELSE LET p == CHOOSE q \in ps : TRUE
         IN  ConnectionsHeld(pc[p]) + SumHeld(ps \ {p})
InUse == SumHeld(ConcProcs)

\* suspended in pool.get()
Waiting(p) == pc[p] \in {"save_pool", "get_pool", "del_pool"}
\* awaiting an answer of the identity provider
AwaitingProvider(p) == pc[p] \in {"exchange", "profile", "orgs"}

\* pool.get() returns
PoolGet(p) == SavePool(p) \/ GetPool(p) \/ DeletePool(p)
\* with a connection, when the pool has one to give
PoolServe(p) == PoolGet(p) /\ InUse < PoolSize /\ ConnectionsHeld(pc'[p]) = 1
\* with an error, when its timeout has passed
PoolTimeout(p) == PoolGet(p) /\ pc'[p] = "done"
\* the store answers the command of a call that holds a connection
StoreCommand(p) == SaveSet(p) \/ SaveExpire(p) \/ GetCmd(p) \/ DeleteCmd(p)

\* the logins that have not yet minted their token
LoginsAhead == Cardinality({p \in ConcProcs : loc[p].op = "login" /\ (AwaitingProvider(p) \/ pc[p] = "save_pool")})

PoolNext ==
    \E p \in ConcProcs :
        \/ (Login(p) /\ Len(minted) + LoginsAhead < NumTokens)
        \/ (ExchangeReturn(p) /\ pc'[p] = "profile")
        \/ (UserReturn(p) /\ pc'[p] = "orgs")
        \/ (OrgsReturn(p) /\ pc'[p] = "save_pool")
        \/ (Session(p) /\ loc'[p].arg \in issued)
        \/ (Logout(p) /\ loc'[p].arg \in issued)
        \/ PoolServe(p)
        \/ PoolTimeout(p)
        \/ StoreCommand(p)

\* a call's wait for the store ends.  Every answer ends it, so asking for
\* the answers that carry no record asks as much as asking for all of them
StoreAnswers(p) ==
    SaveSet(p) \/ SaveExpire(p) \/ GetCmdAnswer(p, TRUE) \/ DeleteCmd(p)

\* the store answers every command, and the pool hands a connection that
\* came back to the callers suspended on it in their turn
PoolFairness ==
    \A p \in ConcProcs : WF_vars(StoreAnswers(p)) /\ SF_vars(PoolServe(p))

\* every handler idle, serving one client
InitPool == InitTables(ConcProcs, {NoArticles}) /\ account[1].id = 7

PoolSpec == InitPool /\ [][PoolNext]_vars /\ PoolFairness

====
